---- MODULE Spec2Model ----
(***************************************************************************)
(* Model of the H-DAE gate (tools/hdae/meta/gate_l1.py) and of the agent   *)
(* ingestion pipeline (tools/hdae/agent_bridge.py, tools/hdae/verify.py).  *)
(*                                                                         *)
(* SpecGate   : the gate as a function of its durable inputs (findings     *)
(*              stream, footprint, waiver file, gated ids).                *)
(* SpecIngest : ingest_diffs as a sequence of steps over the committed     *)
(*              tree, the main working tree and the temporary worktree.    *)
(***************************************************************************)
EXTENDS Integers, Sequences, FiniteSets, TLC

(***************************************************************************)
(* Bounds of the model.                                                    *)
(***************************************************************************)
MaxScan == 2        \* lines in the findings stream
MaxWaiver == 2      \* pieces of text in the waiver file
MaxBatch == 2       \* diff documents in the ingested directory
MaxRuns == 2        \* consecutive ingest invocations

VARIABLES
    \* ---- gate ----
    scan,           \* findings stream file: [exists, lines]
    changed,        \* footprint: the resolved set of changed files
    gate_ids,       \* configured gated pack ids (conf["gate_on_tf_ids"])
    waiverFile,     \* docs/agents/waivers/PR-<N>.md: [state, text]
    verdict,        \* result of _compute_gate, or NoVerdict
    \* ---- ingestion ----
    head,           \* committed tree (HEAD): file -> content, 0 = absent
    main,           \* main working tree (ROOT): file -> content, 0 = absent
    batch,          \* the diff documents of from_dir, in sorted walk order
    badContent,     \* contents on which the validator suite exits non-zero
    pc,             \* position inside ingest_diffs
    wt,             \* tree of the temporary worktree of this invocation
    tmpDirs,        \* invocations whose temporary directory exists
    worktrees,      \* invocations whose worktree is registered with git
    run,            \* number of the current / last invocation
    mainBefore,     \* main tree when the current invocation started
    waiverBefore,   \* waiver file when the current invocation started
    pending,        \* the result ingest is about to return
    runs,           \* outcome of every finished invocation
    \* ---- waive ----
    waiverDir,      \* docs/agents/waivers: change id -> blocks of PR-<id>.md
    waiveCalls,     \* calls of waive made so far, per change id
    \* ---- patcher ----
    srcText,        \* the source under repair: the file on disk / the string
                    \* handed from one pass of apply_all to the next
    packsOpt,       \* the pack selection (packs argument, --packs option)
    patchLog,       \* every finished apply_all call / propose command
    \* ---- task packets ----
    tasksDir,       \* names of the packet files in .hdae/tasks
    lastEmit,       \* the last emission call: input, files written, result
    \* ---- registry validation ----
    tfs,            \* the records of the registry, in sorted path order
    cliOut,         \* what main printed and returned, the stage it ran
    \* ---- scan ----
    paths,          \* the paths handed to scan_paths
    scanOut,        \* its result: findings returned, or the exception
    \* ---- the visitor at a json.loads call ----
    callStack,      \* _Visitor._stack: the nodes around the call, outermost first
    jsonFlag,       \* whether visit_Call reported JSON-016 for the call
    \* ---- _apply_edits ----
    editSrc,        \* the text handed to _apply_edits
    editList,       \* the edits, in the order they are supplied
    editOut,        \* the text returned
    \* ---- run_verify ----
    verifyEnv,      \* HDAE_SKIP_INNER_PYTEST and how each validator ends
    verifyLog,      \* the commands started so far, in order
    verifyOut       \* what run_verify returned, or that it raised

gateVars == <<scan, changed, gate_ids, verdict>>
ingestVars == <<head, main, batch, badContent, pc, wt, tmpDirs, worktrees,
                run, mainBefore, waiverBefore, pending, runs>>
vars == <<scan, changed, gate_ids, waiverFile, verdict,
          head, main, batch, badContent, pc, wt, tmpDirs, worktrees,
          run, mainBefore, waiverBefore, pending, runs,
          waiverDir, waiveCalls, srcText, packsOpt, patchLog,
          tasksDir, lastEmit, tfs, cliOut, paths, scanOut,
          callStack, jsonFlag, editSrc, editList, editOut,
          verifyEnv, verifyLog, verifyOut>>
waiveVars == <<waiverDir, waiveCalls>>
patchVars == <<srcText, packsOpt, patchLog>>
emitVars == <<tasksDir, lastEmit>>
registryVars == <<tfs, cliOut>>
scanVars == <<paths, scanOut>>
visitVars == <<callStack, jsonFlag>>
editVars == <<editSrc, editList, editOut>>
verifyVars == <<verifyEnv, verifyLog, verifyOut>>
unitVars == <<visitVars, editVars, verifyVars>>
toolVars == <<waiveVars, patchVars, emitVars, registryVars, scanVars, unitVars>>

(***************************************************************************)
(* Sequences of bounded length over a set.                                 *)
(***************************************************************************)
SeqUpTo(S, n) == UNION {[1..k -> S] : k \in 0..n}

(***************************************************************************)
(*                               THE GATE                                  *)
(***************************************************************************)
\* One line of the findings stream.  json = "bad" is a line json.loads
\* rejects, "nondict" a JSON value that is no object, "obj" an object with
\* the fields the gate reads ("" = key absent or falsy).
ScanLine(j, t, p, f, q) ==
    [json |-> j, tf_id |-> t, pack |-> p, file |-> f, path |-> q]

ScanLines ==
    { ScanLine("obj", "BEX-001", "", "a.py", ""),
      ScanLine("obj", "BEX-001", "", "x.py", ""),
      ScanLine("obj", "SIL-002", "", "a.py", ""),
      ScanLine("obj", "MDA-003", "BEX-001", "a.py", ""),
      ScanLine("obj", "", "BEX-001", "", "x.py"),
      ScanLine("obj", "BEX-001", "", "", ""),
      ScanLine("bad", "", "", "", "") }

ScanAbsent == [exists |-> FALSE, lines |-> <<>>]
ScanFiles ==
    {ScanAbsent} \cup {[exists |-> TRUE, lines |-> l] : l \in SeqUpTo(ScanLines, MaxScan)}

Footprints == { {}, {"a.py"}, {"a.py", "x.py"} }

GateIdSets == { {"BEX-001"}, {"BEX-001", "SIL-002"} }

\* One piece of waiver text.  "tf_marker" is the text `tf_id: <id>`,
\* "pack_marker" the text `pack: <id>`, "bare" a plain mention of <id>,
\* "other" text that names no id, "block" a block appended by ingest (its
\* reason in the third field).
PieceR(k, i, r) == [kind |-> k, id |-> i, reason |-> r]
Piece(k, i) == PieceR(k, i, "")

WaiverPieces ==
    { Piece("tf_marker", "BEX-001"), Piece("tf_marker", "MDA-003"),
      Piece("pack_marker", "BEX-001"), Piece("bare", "BEX-001"),
      Piece("bare", "SIL-002"), Piece("other", "") }

WaiverAbsent == [state |-> "absent", text |-> <<>>]
WaiverUnreadable == [state |-> "unreadable", text |-> <<>>]
WaiverFiles ==
    {WaiverAbsent, WaiverUnreadable}
    \cup {[state |-> "ok", text |-> t] : t \in SeqUpTo(WaiverPieces, MaxWaiver)}

NoVerdict == [done |-> FALSE]
NoResult == [outcome |-> "none", accepted |-> 0, waived |-> 0]

\* _jsonl_lines: the objects of the stream; an unreadable file gives [].
IsObj(ln) == ln.json = "obj"
JsonlLines(sf) == IF ~sf.exists THEN <<>> ELSE SelectSeq(sf.lines, IsObj)

\* obj.get("tf_id") or obj.get("pack") or ""
TfIdOf(obj) == IF obj.tf_id # "" THEN obj.tf_id ELSE obj.pack
\* obj.get("file") or obj.get("path") or ...
FpathOf(obj) == IF obj.file # "" THEN obj.file ELSE obj.path

\* The body of the counting loop for one record: what it adds to l1_in_pr.
\* (Variant: the footprint test left out.)
CountsNoFootprint(obj, gids, ch) ==
    IF TfIdOf(obj) = "" \/ FpathOf(obj) = "" THEN 0
    ELSE IF TfIdOf(obj) \notin gids THEN 0
    ELSE 1

Counts(obj, gids, ch) ==
    IF TfIdOf(obj) = "" \/ FpathOf(obj) = "" THEN 0
    ELSE IF TfIdOf(obj) \notin gids THEN 0
    ELSE IF ch # {} /\ FpathOf(obj) \notin ch THEN 0
    ELSE 1

\* (Variant: equal records counted once.)
L1InPrDistinct(items, gids, ch) ==
    Cardinality({items[i] : i \in {j \in DOMAIN items : Counts(items[j], gids, ch) = 1}})

RECURSIVE L1InPr(_, _, _)
L1InPr(items, gids, ch) ==
    IF items = <<>> THEN 0
    ELSE Counts(Head(items), gids, ch) + L1InPr(Tail(items), gids, ch)

\* re.findall(regex, text) with the default waiver_tf_regex: the ids of the
\* `tf_id: <id>` markers, in order.
IsTfMarker(p) == p.kind = "tf_marker"
RegexMatches(text) == SelectSeq(text, IsTfMarker)

\* text.count(gid): every piece that spells the id contains it once.
TextCount(text, gid) == Cardinality({i \in DOMAIN text : text[i].id = gid})

RECURSIVE DirectCount(_, _)
DirectCount(text, gids) ==
    IF gids = {} THEN 0
    ELSE LET g == CHOOSE x \in gids : TRUE
         IN  TextCount(text, g) + DirectCount(text, gids \ {g})

MarkerCount(text, gids) ==
    Cardinality({i \in DOMAIN RegexMatches(text) : RegexMatches(text)[i].id \in gids})

\* (Variant: markers and plain mentions added up instead of staged.)
CountWaiversSum(wf, gids) ==
    IF wf.state # "ok" THEN 0
    ELSE IF MarkerCount(wf.text, gids) + DirectCount(wf.text, gids) > 0
         THEN MarkerCount(wf.text, gids) + DirectCount(wf.text, gids)
         ELSE 1

\* (Variant: a file without recognizable text waives nothing.)
CountWaiversNoBlanket(wf, gids) ==
    IF wf.state # "ok" THEN 0
    ELSE IF MarkerCount(wf.text, gids) > 0 THEN MarkerCount(wf.text, gids)
    ELSE DirectCount(wf.text, gids)

CountWaivers(wf, gids) ==
    IF wf.state = "absent" THEN 0                  \* not os.path.exists(path)
    ELSE IF wf.state = "unreadable" THEN 0         \* except OSError
    ELSE IF MarkerCount(wf.text, gids) > 0 THEN MarkerCount(wf.text, gids)
    ELSE IF DirectCount(wf.text, gids) > 0 THEN DirectCount(wf.text, gids)
    ELSE 1

Max(a, b) == IF a >= b THEN a ELSE b

\* (Variant: the clamp at zero left out.)
RemainingNoClamp(l1, w) == l1 - w

Remaining(l1, w) == Max(l1 - w, 0)

ExitCode(remaining) == IF remaining > 0 THEN 1 ELSE 0

\* The verdict _compute_gate builds from the parsed stream.
GateResultOf(items, ch, wf, gids) ==
    LET l1 == L1InPr(items, gids, ch)
        w == CountWaivers(wf, gids)
        rem == Remaining(l1, w)
    IN  [done |-> TRUE,
         total_all |-> Len(items),
         l1_in_pr |-> l1,
         waivers |-> w,
         remaining_l1 |-> rem,
         changed_files |-> Cardinality(ch),
         code |-> ExitCode(rem)]

\* (Variant: a missing findings stream fails the gate.)
ComputeGateResultStrict(sf, ch, wf, gids) ==
    IF sf.exists THEN GateResultOf(JsonlLines(sf), ch, wf, gids)
    ELSE [GateResultOf(<<>>, ch, wf, gids) EXCEPT !.code = 1]

\* _compute_gate on the inputs found on disk.
ComputeGateResult(sf, ch, wf, gids) ==
    GateResultOf(JsonlLines(sf), ch, wf, gids)

(***************************************************************************)
(*                            THE INGESTION                                *)
(*                                                                         *)
(* A tree maps each file to its content, 0 for "no such file".  A diff     *)
(* document is either a file-creation document (old side /dev/null) or a   *)
(* modification that rewrites content `from` of file `rel` into `to`:      *)
(* git apply --check accepts it exactly on a file holding `from`, and       *)
(* git apply --reverse --check exactly on a file holding `to`.             *)
(***************************************************************************)
Files == {"f", "g"}
\* Two distinct contents (the two images of a diff); 0 stands for "no file".
Contents == {1, 2}
NoTree == [x \in Files |-> 0]

NewDoc(rel, c) == [kind |-> "new", rel |-> rel, from |-> 0, to |-> c]
ModDoc(rel, a, b) == [kind |-> "mod", rel |-> rel, from |-> a, to |-> b]
Docs ==
    {NewDoc(r, c) : r \in Files, c \in Contents}
    \cup {ModDoc(r, ab[1], ab[2]) :
             r \in Files, ab \in {p \in Contents \X Contents : p[1] # p[2]}}

\* The split of the collected documents: new_files and apply_diffs.
IsNew(d) == d.kind = "new"
IsMod(d) == d.kind = "mod"
NewFiles(b) == SelectSeq(b, IsNew)
ApplyDiffs(b) == SelectSeq(b, IsMod)

GitApplyCheck(tree, d) == tree[d.rel] = d.from
GitReverseCheck(tree, d) == tree[d.rel] = d.to
GitApply(tree, d) == [tree EXCEPT ![d.rel] = d.to]

\* git worktree add --detach tmp HEAD, then the overlay of the files
\* `git diff --name-only` lists (tracked, differing from HEAD) that are
\* regular files in the main tree.  Untracked files are not listed and
\* files deleted in the main tree are not copied.
Overlay(h, m) ==
    [x \in Files |-> IF h[x] # 0 /\ m[x] # h[x] /\ m[x] # 0 THEN m[x] ELSE h[x]]

\* The loop that materializes the new files in the worktree.
RECURSIVE WriteNewFiles(_, _)
WriteNewFiles(tree, nf) ==
    IF nf = <<>> THEN tree
    ELSE WriteNewFiles([tree EXCEPT ![Head(nf).rel] = Head(nf).to], Tail(nf))

\* _apply_patches_in: check then apply each diff, stop at the first failure.
RECURSIVE ApplyPatchesIn(_, _)
ApplyPatchesIn(tree, diffs) ==
    IF diffs = <<>> THEN [ok |-> TRUE, tree |-> tree]
    ELSE IF ~GitApplyCheck(tree, Head(diffs)) THEN [ok |-> FALSE, tree |-> tree]
    ELSE ApplyPatchesIn(GitApply(tree, Head(diffs)), Tail(diffs))

\* run_verify seen from ingest: a deterministic function of the tree it runs
\* in; the suite exits non-zero iff some file holds a content it rejects.
RunVerify(tree, bad) == \A x \in Files : tree[x] \notin bad

RECURSIVE MergeNewFilesAlways(_, _, _)
MergeNewFilesAlways(tree, nf, acc) ==
    IF nf = <<>> THEN [tree |-> tree, accepted |-> acc]
    ELSE MergeNewFilesAlways([tree EXCEPT ![Head(nf).rel] = Head(nf).to],
                             Tail(nf), acc + 1)
\* The merge loop over new_files: write when the content differs.
RECURSIVE MergeNewFiles(_, _, _)
MergeNewFiles(tree, nf, acc) ==
    IF nf = <<>> THEN [tree |-> tree, accepted |-> acc]
    ELSE IF tree[Head(nf).rel] # Head(nf).to
         THEN MergeNewFiles([tree EXCEPT ![Head(nf).rel] = Head(nf).to], Tail(nf), acc + 1)
         ELSE MergeNewFiles(tree, Tail(nf), acc)

\* _accept_into_main: reverse probe, skip or forward apply; the forward
\* apply runs with check=True, so a diff that does not apply raises.
RECURSIVE AcceptIntoMain(_, _, _)
AcceptIntoMain(tree, diffs, applied) ==
    IF diffs = <<>> THEN [tree |-> tree, applied |-> applied, raised |-> FALSE]
    ELSE IF GitReverseCheck(tree, Head(diffs))
         THEN AcceptIntoMain(tree, Tail(diffs), applied)
    ELSE IF ~GitApplyCheck(tree, Head(diffs))
         THEN [tree |-> tree, applied |-> applied, raised |-> TRUE]
    ELSE AcceptIntoMain(GitApply(tree, Head(diffs)), Tail(diffs), applied + 1)

PatchReason == "patch apply failed in worktree"
VerifyReason == "verify failed"

\* (Variant: one block per diff document.)
WaiveForDiffsPerDiff(wf, reason) ==
    [state |-> "ok",
     text |-> wf.text \o [i \in 1..Len(batch) |-> PieceR("block", "", reason)]]

\* _waive_for_diffs: one block appended to the waiver file of the change.
WaiveForDiffs(wf, reason) ==
    [state |-> "ok", text |-> Append(wf.text, PieceR("block", "", reason))]

\* Change ids (the <N> of PR-<N>.md); 0 is the default of waive.
PRs == {0, 1}

WaiveIdle ==
    /\ waiverDir = [p \in PRs |-> <<>>]
    /\ waiveCalls = [p \in PRs |-> 0]

PatchIdle ==
    /\ srcText = [imports |-> {}, body |-> <<>>]
    /\ packsOpt = [given |-> FALSE, ids |-> {}]
    /\ patchLog = <<>>

NoEmit == [op |-> "none"]
EmitIdle == tasksDir = {} /\ lastEmit = NoEmit

RegistryIdle == tfs = <<>> /\ cliOut = [done |-> FALSE]

ScanIdle == paths = <<>> /\ scanOut = [done |-> FALSE]

VisitIdle == callStack = <<>> /\ jsonFlag = "unvisited"

EditIdle == editSrc = <<>> /\ editList = <<>> /\ editOut = [done |-> FALSE]

VerifyIdle ==
    /\ verifyEnv = [skip |-> FALSE, scope |-> "all", ends |-> <<>>]
    /\ verifyLog = <<>> /\ verifyOut = [done |-> FALSE]

UnitsIdle == VisitIdle /\ EditIdle /\ VerifyIdle

\* The state of the tools that a specification does not exercise.
ToolsIdle ==
    WaiveIdle /\ PatchIdle /\ EmitIdle /\ RegistryIdle /\ ScanIdle /\ UnitsIdle

IngestIdle ==
    /\ head = NoTree /\ main = NoTree /\ batch = <<>> /\ badContent = {}
    /\ pc = "idle" /\ wt = NoTree /\ tmpDirs = {} /\ worktrees = {}
    /\ run = 0 /\ mainBefore = NoTree /\ waiverBefore = WaiverAbsent
    /\ pending = NoResult /\ runs = <<>>

(***************************************************************************)
(* The gate as a state machine: the inputs are whatever is on disk, one    *)
(* action runs _compute_gate on them.                                      *)
(***************************************************************************)
InitGate ==
    /\ scan \in ScanFiles
    /\ changed \in Footprints
    /\ gate_ids \in GateIdSets
    /\ waiverFile \in WaiverFiles
    /\ verdict = NoVerdict
    /\ IngestIdle
    /\ ToolsIdle

ComputeGate ==
    /\ ~verdict.done
    /\ verdict' = ComputeGateResult(scan, changed, waiverFile, gate_ids)
    /\ UNCHANGED <<scan, changed, gate_ids, waiverFile>>
    /\ UNCHANGED ingestVars
    /\ UNCHANGED toolVars

NextGate == ComputeGate

SpecGate == InitGate /\ [][NextGate]_vars

(***************************************************************************)
(* Claims about the gate (checked under SpecGate).                         *)
(***************************************************************************)
Items == JsonlLines(scan)
Without(s, i) == SubSeq(s, 1, i - 1) \o SubSeq(s, i + 1, Len(s))
\* What record i adds to the reported l1_in_pr: the reported count minus
\* the count of the same stream with record i taken out.
Contribution(i) == verdict.l1_in_pr - L1InPr(Without(Items, i), gate_ids, changed)

\* C1: remaining_l1 = max(l1_in_pr - waivers, 0); the exit code is 1 exactly
\* when remaining_l1 > 0 and 0 exactly when it is 0; and
\* 0 <= remaining_l1 <= l1_in_pr <= total_all.
C1_GateArithmetic ==
    verdict.done =>
        /\ verdict.remaining_l1 =
               (IF verdict.l1_in_pr > verdict.waivers
                THEN verdict.l1_in_pr - verdict.waivers ELSE 0)
        /\ verdict.code \in {0, 1}
        /\ (verdict.code = 1) <=> (verdict.remaining_l1 > 0)
        /\ (verdict.code = 0) <=> (verdict.remaining_l1 = 0)
        /\ 0 <= verdict.remaining_l1
        /\ verdict.remaining_l1 <= verdict.l1_in_pr
        /\ verdict.l1_in_pr <= verdict.total_all

\* C1 witness: a partially waived verdict (two counted, one waived, gate fails)
C1_Witness ==
    /\ verdict.done
    /\ verdict.l1_in_pr = 2 /\ verdict.waivers = 1
    /\ verdict.remaining_l1 = 1 /\ verdict.code = 1

\* C2 (as stated): for every footprint, the empty one included, a record
\* whose file is not in the footprint adds nothing to l1_in_pr.
C2_OutsideFootprintNeverCounts ==
    verdict.done =>
        \A i \in DOMAIN Items :
            FpathOf(Items[i]) \notin changed => Contribution(i) = 0

\* C2 (amended): for every non-empty footprint a record whose file is not in
\* the footprint adds nothing to l1_in_pr; with an empty footprint no
\* footprint filter is applied and every gated record with a file counts.
C2_OutsideNonEmptyFootprintNeverCounts ==
    verdict.done =>
        \A i \in DOMAIN Items :
            /\ (changed # {} /\ FpathOf(Items[i]) \notin changed)
                    => Contribution(i) = 0
            /\ (changed = {} /\ TfIdOf(Items[i]) \in gate_ids /\ FpathOf(Items[i]) # "")
                    => Contribution(i) = 1

\* C2 witness: a gated record outside a non-empty footprint next to a counted one
C2_Witness ==
    /\ verdict.done /\ changed # {} /\ verdict.l1_in_pr = 1
    /\ \E i \in DOMAIN Items :
          /\ TfIdOf(Items[i]) \in gate_ids
          /\ FpathOf(Items[i]) # "" /\ FpathOf(Items[i]) \notin changed

\* C3: a record whose pack id is not gated adds nothing to l1_in_pr, and
\* every record with a gated pack id and a file in the footprint adds exactly
\* one, duplicates included.
C3_GatedInFootprintCountOnce ==
    verdict.done =>
        \A i \in DOMAIN Items :
            /\ TfIdOf(Items[i]) \notin gate_ids => Contribution(i) = 0
            /\ (TfIdOf(Items[i]) \in gate_ids /\ FpathOf(Items[i]) \in changed)
                    => Contribution(i) = 1

\* C3 witness: the same gated in-footprint record twice, counted twice, next
\* to nothing else
C3_Witness ==
    /\ verdict.done /\ Len(Items) = 2 /\ Items[1] = Items[2]
    /\ TfIdOf(Items[1]) \in gate_ids /\ FpathOf(Items[1]) \in changed
    /\ verdict.l1_in_pr = 2

\* Numbers of pieces of the waiver text, by what they spell.
NumPieces(kinds) ==
    Cardinality({i \in DOMAIN waiverFile.text :
                    /\ waiverFile.text[i].kind \in kinds
                    /\ waiverFile.text[i].id \in gate_ids})
StagedCount(a, b) == IF a > 0 THEN a ELSE IF b > 0 THEN b ELSE 1

\* C4 (as stated): waivers is (a) the number of `pack: <ID>` markers with a
\* gated id, else (b) the number of occurrences of gated ids in the text,
\* else (c) 1; a present file always gives >= 1, an absent one 0.
C4_WaiverStagesPackMarker ==
    verdict.done =>
        /\ waiverFile.state = "absent" => verdict.waivers = 0
        /\ waiverFile.state # "absent" =>
              /\ verdict.waivers >= 1
              /\ verdict.waivers =
                    StagedCount(NumPieces({"pack_marker"}),
                                NumPieces({"tf_marker", "pack_marker", "bare"}))

\* C4 (amended): the explicit marker is `tf_id: <ID>` (the default
\* waiver_tf_regex), and the three stages apply to a waiver file that exists
\* and can be read: such a file gives >= 1; an absent file, and a file that
\* exists but cannot be read, give 0.
C4_WaiverStagesTfMarker ==
    verdict.done =>
        /\ waiverFile.state \in {"absent", "unreadable"} => verdict.waivers = 0
        /\ waiverFile.state = "ok" =>
              /\ verdict.waivers >= 1
              /\ verdict.waivers =
                    StagedCount(NumPieces({"tf_marker"}),
                                NumPieces({"tf_marker", "pack_marker", "bare"}))

\* C4 witness: stage (b) decides: a `pack: <ID>` marker and a plain mention
\* of a gated id, no gated `tf_id:` marker, two waivers
C4_Witness ==
    /\ verdict.done /\ waiverFile.state = "ok"
    /\ NumPieces({"tf_marker"}) = 0
    /\ NumPieces({"pack_marker"}) = 1 /\ NumPieces({"bare"}) = 1
    /\ verdict.waivers = 2

\* C5 (as stated): with the findings stream absent every count is zero,
\* waivers included, and the exit code is 0, whatever the waiver file.
C5_NoScanAllZero ==
    (verdict.done /\ ~scan.exists) =>
        /\ verdict.total_all = 0 /\ verdict.l1_in_pr = 0
        /\ verdict.waivers = 0 /\ verdict.remaining_l1 = 0
        /\ verdict.code = 0

\* C5 (amended): with the findings stream absent total_all, l1_in_pr and
\* remaining_l1 are 0 and the exit code is 0; waivers is still counted from
\* the waiver file, so it is 0 only if that file is absent or unreadable.
C5_NoScanPasses ==
    (verdict.done /\ ~scan.exists) =>
        /\ verdict.total_all = 0 /\ verdict.l1_in_pr = 0
        /\ verdict.remaining_l1 = 0 /\ verdict.code = 0
        /\ (verdict.waivers = 0) <=> (waiverFile.state # "ok")

\* C5 witness: no findings stream, a waiver file with two gated markers
C5_Witness ==
    /\ verdict.done /\ ~scan.exists /\ changed # {}
    /\ verdict.waivers = 2 /\ verdict.code = 0

(***************************************************************************)
(* ingest_diffs as a state machine.  One invocation walks                  *)
(*   idle -> worktree_add -> apply -> verify -> merge | reject -> remove   *)
(* and back to idle, where its result is appended to `runs`.  The tree,    *)
(* the directory of diffs and the validators are whatever Init chose; no   *)
(* other process touches them between invocations.                         *)
(***************************************************************************)
InitIngest ==
    /\ head \in [Files -> {0, 1}]
    /\ main \in [Files -> {0} \cup Contents]
    /\ batch \in SeqUpTo(Docs, MaxBatch)
    /\ badContent \in {{}, {2}}
    /\ waiverFile = WaiverAbsent
    /\ pc = "idle" /\ wt = NoTree /\ tmpDirs = {} /\ worktrees = {}
    /\ run = 0 /\ mainBefore = NoTree /\ waiverBefore = WaiverAbsent
    /\ pending = NoResult /\ runs = <<>>
    /\ scan = ScanAbsent /\ changed = {} /\ gate_ids = {} /\ verdict = NoVerdict
    /\ ToolsIdle

\* What is recorded when an invocation ends, by return or by exception.
RunRecord(res, mainAfter, wfAfter, dirs, regs) ==
    [outcome |-> res.outcome, accepted |-> res.accepted, waived |-> res.waived,
     at |-> pc, was |-> pending.outcome,
     mainBefore |-> mainBefore, mainAfter |-> mainAfter,
     waiverBefore |-> waiverBefore, waiverAfter |-> wfAfter,
     wt |-> wt, dirLeft |-> run \in dirs, regLeft |-> run \in regs]

Result(o, a, w) == [outcome |-> o, accepted |-> a, waived |-> w]

\* (Variant: the early return on an empty directory left out.)
IngestStartNoEarlyReturn ==
    /\ pc = "idle" /\ run < MaxRuns
    /\ run' = run + 1
    /\ mainBefore' = main /\ waiverBefore' = waiverFile
    /\ pc' = "worktree_add"
    /\ UNCHANGED <<head, main, batch, badContent, wt, tmpDirs, worktrees, pending,
                   runs, waiverFile>>
    /\ UNCHANGED gateVars
    /\ UNCHANGED toolVars

\* Lines 240-273: collect the documents; an empty directory returns at once.
IngestStart ==
    /\ pc = "idle" /\ run < MaxRuns
    /\ run' = run + 1
    /\ mainBefore' = main /\ waiverBefore' = waiverFile
    /\ IF batch = <<>>
       THEN /\ pc' = "idle"
            /\ runs' = Append(runs,
                   [outcome |-> "empty", accepted |-> 0, waived |-> 0,
                    at |-> "idle", was |-> "none",
                    mainBefore |-> main, mainAfter |-> main,
                    waiverBefore |-> waiverFile, waiverAfter |-> waiverFile,
                    wt |-> wt, dirLeft |-> FALSE, regLeft |-> FALSE])
       ELSE /\ pc' = "worktree_add"
            /\ runs' = runs
    /\ UNCHANGED <<head, main, batch, badContent, wt, tmpDirs, worktrees, pending,
                   waiverFile>>
    /\ UNCHANGED gateVars
    /\ UNCHANGED toolVars

\* Lines 276-290: the temporary directory, the worktree and the overlay.
WorktreeAdd ==
    /\ pc = "worktree_add"
    /\ tmpDirs' = tmpDirs \cup {run}
    /\ worktrees' = worktrees \cup {run}
    /\ wt' = Overlay(head, main)
    /\ pc' = "apply"
    /\ UNCHANGED <<head, main, batch, badContent, run, mainBefore, waiverBefore,
                   pending, runs, waiverFile>>
    /\ UNCHANGED gateVars
    /\ UNCHANGED toolVars

\* Line 289: listing the uncommitted changes fails, the error is logged and
\* the worktree stays at HEAD.
WorktreeAddNoOverlay ==
    /\ pc = "worktree_add"
    /\ tmpDirs' = tmpDirs \cup {run}
    /\ worktrees' = worktrees \cup {run}
    /\ wt' = head
    /\ pc' = "apply"
    /\ UNCHANGED <<head, main, batch, badContent, run, mainBefore, waiverBefore,
                   pending, runs, waiverFile>>
    /\ UNCHANGED gateVars
    /\ UNCHANGED toolVars

\* Line 277: git worktree add exits non-zero; _git raises, the
\* TemporaryDirectory is removed on the way out.
WorktreeAddFails ==
    /\ pc = "worktree_add"
    /\ runs' = Append(runs, RunRecord(Result("raised", 0, 0), main, waiverFile,
                                      tmpDirs, worktrees))
    /\ pc' = "idle"
    /\ UNCHANGED <<head, main, batch, badContent, wt, tmpDirs, worktrees, run,
                   mainBefore, waiverBefore, pending, waiverFile>>
    /\ UNCHANGED gateVars
    /\ UNCHANGED toolVars

\* Lines 292-297: new files, then every modification diff, in the worktree.
ApplyInWorktree ==
    /\ pc = "apply"
    /\ LET r == ApplyPatchesIn(WriteNewFiles(wt, NewFiles(batch)), ApplyDiffs(batch))
       IN  /\ wt' = r.tree
           /\ pc' = IF r.ok THEN "verify" ELSE "reject_patch"
    /\ UNCHANGED <<head, main, batch, badContent, tmpDirs, worktrees, run,
                   mainBefore, waiverBefore, pending, runs, waiverFile>>
    /\ UNCHANGED gateVars
    /\ UNCHANGED toolVars

\* Lines 298-299: the waiver of a batch that does not apply.
RejectPatch ==
    /\ pc = "reject_patch"
    /\ waiverFile' = WaiveForDiffs(waiverFile, PatchReason)
    /\ pending' = Result("patch-rejected", 0, 1)
    /\ pc' = "remove"
    /\ UNCHANGED <<head, main, batch, badContent, wt, tmpDirs, worktrees, run,
                   mainBefore, waiverBefore, runs>>
    /\ UNCHANGED gateVars
    /\ UNCHANGED toolVars

VerifyUnheeded ==
    /\ pc = "verify"
    /\ pc' = "merge"
    /\ UNCHANGED <<head, main, batch, badContent, wt, tmpDirs, worktrees, run,
                   mainBefore, waiverBefore, pending, runs, waiverFile>>
    /\ UNCHANGED gateVars
    /\ UNCHANGED toolVars
\* Lines 302-317: the validator suite in the worktree.
Verify ==
    /\ pc = "verify"
    /\ pc' = IF RunVerify(wt, badContent) THEN "merge" ELSE "reject_verify"
    /\ UNCHANGED <<head, main, batch, badContent, wt, tmpDirs, worktrees, run,
                   mainBefore, waiverBefore, pending, runs, waiverFile>>
    /\ UNCHANGED gateVars
    /\ UNCHANGED toolVars

\* Line 308: a validator cannot be started (no interpreter at HDAE_PY);
\* run_verify catches CalledProcessError only, the OSError propagates
\* through the finally clause, which removes the directory.
VerifyRaises ==
    /\ pc = "verify"
    /\ tmpDirs' = tmpDirs \ {run}
    /\ runs' = Append(runs, RunRecord(Result("raised", 0, 0), main, waiverFile,
                                      tmpDirs', worktrees))
    /\ pc' = "idle"
    /\ UNCHANGED <<head, main, batch, badContent, wt, worktrees, run,
                   mainBefore, waiverBefore, pending, waiverFile>>
    /\ UNCHANGED gateVars
    /\ UNCHANGED toolVars

\* Line 333: the waiver of a batch the validators reject.
RejectVerify ==
    /\ pc = "reject_verify"
    /\ waiverFile' = WaiveForDiffs(waiverFile, VerifyReason)
    /\ pending' = Result("verify-rejected", 0, 1)
    /\ pc' = "remove"
    /\ UNCHANGED <<head, main, batch, badContent, wt, tmpDirs, worktrees, run,
                   mainBefore, waiverBefore, runs>>
    /\ UNCHANGED gateVars
    /\ UNCHANGED toolVars

\* Lines 317-330: the merge into the main tree.  When a forward apply
\* raises, what was written before it stays written.
Merge ==
    /\ pc = "merge"
    /\ LET m1 == MergeNewFiles(main, NewFiles(batch), 0)
           m2 == AcceptIntoMain(m1.tree, ApplyDiffs(batch), 0)
       IN  /\ main' = m2.tree
           /\ IF m2.raised
              THEN /\ tmpDirs' = tmpDirs \ {run}
                   /\ runs' = Append(runs,
                          RunRecord(Result("raised", 0, 0), m2.tree, waiverFile,
                                    tmpDirs', worktrees))
                   /\ pc' = "idle"
                   /\ pending' = pending
              ELSE /\ pending' = Result("merged", m1.accepted + m2.applied, 0)
                   /\ pc' = "remove"
                   /\ UNCHANGED <<tmpDirs, runs>>
    /\ UNCHANGED <<head, batch, badContent, wt, worktrees, run,
                   mainBefore, waiverBefore, waiverFile>>
    /\ UNCHANGED gateVars
    /\ UNCHANGED toolVars

\* Lines 300, 331, 334 and the finally clause: the worktree is removed, the
\* result returned, the directory deleted.
WorktreeRemove ==
    /\ pc = "remove"
    /\ worktrees' = worktrees \ {run}
    /\ tmpDirs' = tmpDirs \ {run}
    /\ runs' = Append(runs, RunRecord(pending, main, waiverFile, tmpDirs', worktrees'))
    /\ pending' = NoResult
    /\ pc' = "idle"
    /\ UNCHANGED <<head, main, batch, badContent, wt, run, mainBefore,
                   waiverBefore, waiverFile>>
    /\ UNCHANGED gateVars
    /\ UNCHANGED toolVars

\* git worktree remove exits non-zero: _git raises, nothing is returned;
\* the finally clause still deletes the directory.
WorktreeRemoveFails ==
    /\ pc = "remove"
    /\ tmpDirs' = tmpDirs \ {run}
    /\ runs' = Append(runs, RunRecord(Result("raised", 0, 0), main, waiverFile,
                                      tmpDirs', worktrees))
    /\ pending' = NoResult
    /\ pc' = "idle"
    /\ UNCHANGED <<head, main, batch, badContent, wt, worktrees, run, mainBefore,
                   waiverBefore, waiverFile>>
    /\ UNCHANGED gateVars
    /\ UNCHANGED toolVars

NextIngest ==
    \/ IngestStart
    \/ WorktreeAdd
    \/ WorktreeAddNoOverlay
    \/ WorktreeAddFails
    \/ ApplyInWorktree
    \/ RejectPatch
    \/ Verify
    \/ VerifyRaises
    \/ RejectVerify
    \/ Merge
    \/ WorktreeRemove
    \/ WorktreeRemoveFails

SpecIngest == InitIngest /\ [][NextIngest]_vars

(***************************************************************************)
(* Claims about the ingestion (checked under SpecIngest).                  *)
(***************************************************************************)
Rejected == {"patch-rejected", "verify-rejected"}
Targets == {batch[i].rel : i \in DOMAIN batch}

\* C6: a batch rejected because a diff fails its check or the validators
\* fail leaves the main tree as it was, and a batch that reaches the merge
\* is merged entirely or not at all: no invocation ends with only a part of
\* the batch in the main tree.
C6_NoPartialMerge ==
    \A k \in DOMAIN runs :
        /\ (runs[k].outcome \in Rejected \/ runs[k].was \in Rejected)
              => runs[k].mainAfter = runs[k].mainBefore
        /\ (runs[k].outcome = "merged" \/ runs[k].was = "merged")
              => \A x \in Targets : runs[k].mainAfter[x] = runs[k].wt[x]
        /\ runs[k].at = "merge"
              => \/ runs[k].mainAfter = runs[k].mainBefore
                 \/ \A x \in Targets : runs[k].mainAfter[x] = runs[k].wt[x]

\* C7: every rejected ingestion appends exactly one waiver block, whatever
\* the number of diffs, and returns accepted = 0, waived = 1; the block of a
\* patch rejection and that of a verify rejection differ in the reason only.
C7_RejectionWaivesOnce ==
    /\ PatchReason # VerifyReason
    /\ \A k \in DOMAIN runs :
         /\ runs[k].outcome \in Rejected
               => runs[k].accepted = 0 /\ runs[k].waived = 1
         /\ (runs[k].outcome = "patch-rejected" \/ runs[k].was = "patch-rejected")
               => /\ runs[k].waiverAfter.state = "ok"
                  /\ runs[k].waiverAfter.text =
                        Append(runs[k].waiverBefore.text, PieceR("block", "", PatchReason))
         /\ (runs[k].outcome = "verify-rejected" \/ runs[k].was = "verify-rejected")
               => /\ runs[k].waiverAfter.state = "ok"
                  /\ runs[k].waiverAfter.text =
                        Append(runs[k].waiverBefore.text, PieceR("block", "", VerifyReason))

\* C7 witness: a batch of two diffs rejected once by the validators and once
\* on application, one block per rejection
C7_Witness ==
    /\ Len(batch) = 2 /\ Len(runs) = 2
    /\ runs[1].outcome = "verify-rejected" /\ runs[2].outcome = "patch-rejected"
    /\ Len(waiverFile.text) = 2

\* C8: an ingest that directly follows a successful ingest of the same
\* directory reports accepted = 0, for every batch.
C8_ReingestAcceptsNothing ==
    \A k \in DOMAIN runs :
        (k > 1 /\ runs[k - 1].outcome = "merged" /\ runs[k].outcome # "raised")
            => runs[k].accepted = 0

\* C9: an ingest that directly follows a successful ingest of the same
\* directory is a no-op: accepted = 0, waived = 0, nothing appended to the
\* waiver record, main tree unchanged, for every batch.
C9_ReingestIsNoOp ==
    \A k \in DOMAIN runs :
        (k > 1 /\ runs[k - 1].outcome = "merged" /\ runs[k].outcome # "raised")
            => /\ runs[k].accepted = 0 /\ runs[k].waived = 0
               /\ runs[k].waiverAfter = runs[k].waiverBefore
               /\ runs[k].mainAfter = runs[k].mainBefore

\* C10: on every exit path of ingest, by return or by exception, the
\* isolated copy is gone: neither its directory nor its worktree
\* registration remains.
C10_IsolatedCopyAlwaysRemoved ==
    /\ \A k \in DOMAIN runs : ~runs[k].dirLeft /\ ~runs[k].regLeft
    /\ pc = "idle" => tmpDirs = {} /\ worktrees = {}

\* C11: ingest always returns a structured {accepted, waived} result and
\* never ends with an unhandled error: a failing worktree creation, a diff
\* that fails to apply to the main tree during the merge and a failing
\* worktree removal all end in a returned result.
C11_IngestNeverRaises ==
    \A k \in DOMAIN runs : runs[k].outcome # "raised"

(***************************************************************************)
(* waive (agent_bridge.py 394-409): one block per call, appended to the    *)
(* waiver file of the change id.                                           *)
(***************************************************************************)
MaxWaiveCalls == 3

GateIdle ==
    /\ scan = ScanAbsent /\ changed = {} /\ gate_ids = {}
    /\ verdict = NoVerdict /\ waiverFile = WaiverAbsent

\* Lines 399-406: the header line, the reason line and the fenced frame.
WaiverBlock(find, reason) ==
    [pack |-> find.pack, file |-> find.file, line |-> find.line,
     reason |-> reason]

AppendBlockDedup(text, block) ==
    IF \E i \in DOMAIN text : text[i] = block THEN text ELSE Append(text, block)
\* Lines 407-408: open(out_path, "a") and one write.
AppendBlock(text, block) == Append(text, block)

\* The arguments of a call: a finding, a reason and a change id.
Waive ==
    /\ waiveCalls[0] + waiveCalls[1] < MaxWaiveCalls
    /\ \E find \in {[pack |-> "BEX-001", file |-> "a.py", line |-> 1],
                     [pack |-> "SIL-002", file |-> "a.py", line |-> 2]},
          reason \in {"legacy", "flaky"}, pr \in PRs :
         /\ waiverDir' = [waiverDir EXCEPT
                             ![pr] = AppendBlock(@, WaiverBlock(find, reason))]
         /\ waiveCalls' = [waiveCalls EXCEPT ![pr] = @ + 1]
    /\ UNCHANGED <<gateVars, waiverFile, ingestVars, patchVars, emitVars,
                   registryVars, scanVars, unitVars>>

InitWaive == GateIdle /\ IngestIdle /\ ToolsIdle

NextWaive == Waive

SpecWaive == InitWaive /\ [][NextWaive]_vars

\* C12: waive is append-only and never deduplicates: after n calls for a
\* change id its waiver file holds n blocks, what the file held before a
\* call is an unchanged prefix of what it holds after, and a call identical
\* to an earlier one still adds a block.
C12_WaiveAppendOnly ==
    [][\A p \in PRs :
          /\ Len(waiverDir'[p]) = waiveCalls'[p]
          /\ SubSeq(waiverDir'[p], 1, Len(waiverDir[p])) = waiverDir[p]
          /\ waiveCalls'[p] = waiveCalls[p] + 1
                => Len(waiverDir'[p]) = Len(waiverDir[p]) + 1]_vars

\* C12 witness: the same call made twice for change 0, another for change 1
C12_Witness ==
    /\ Len(waiverDir[0]) = 2 /\ waiverDir[0][1] = waiverDir[0][2]
    /\ Len(waiverDir[1]) = 1

(***************************************************************************)
(* The patcher (patch_cst.py).  A source text is abstracted to the import  *)
(* lines it has and the sequence of the constructs the fixers and the      *)
(* scanner look at; every construct carries the properties of its text     *)
(* that the code tests.  Constructs are taken to lie more than five lines  *)
(* apart, each on lines of its own.                                        *)
(***************************************************************************)
MaxSrc == 2
MaxPatchRuns == 2

PackOrderSilFirst ==
    <<"SIL-002", "BEX-001", "MDA-003", "SUB-006", "RES-005", "ARG-008",
      "LOG-010", "ERR-011", "PATH-014", "YAML-015", "JSON-016">>
\* apply_all, lines 527-539: the fixers in the order they run.
PackOrder ==
    <<"BEX-001", "SIL-002", "MDA-003", "SUB-006", "RES-005", "ARG-008",
      "LOG-010", "ERR-011", "PATH-014", "YAML-015", "JSON-016">>

\* An except handler: its type ("bare", "Exception", "allowed" = the tuple
\* of ALLOWED_EXCS, "named" = one specific exception), whether it binds a
\* name, its one-statement body, and whether the body is on the line of the
\* except keyword ("inline") or on the next one ("block").
Handler(type, name, body, layout) ==
    [kind |-> "handler", type |-> type, name |-> name, body |-> body,
     layout |-> layout]

\* A function with one defaulted parameter: where it is defined ("module":
\* plain def at module or class level, "nested": def inside a def, "async":
\* async def), its default, whether the default is written `x=[]` ("tight")
\* or `x = []` / `x: list = []` ("spaced"), whether the body holds the
\* `if x is None:` guard.
FuncDef(ctx, default, spelling, guard) ==
    [kind |-> "def", ctx |-> ctx, default |-> default, spelling |-> spelling,
     guard |-> guard]

\* A subprocess.run call: where its check= and text= keywords are
\* ("absent", "first" line of the call, "later" line), which parenthesis is
\* the last `)` of its first line ("own": the call's, "inner": that of a
\* nested call, the call going on to the next line), and the keywords
\* inserted so far into that nested call.
RunCall(check, text, paren, inner) ==
    [kind |-> "run", check |-> check, text |-> text, paren |-> paren,
     inner |-> inner]

\* The one-line constructs of the other packs.
Simple(kind, form) == [kind |-> kind, form |-> form]

Constructs ==
    {Handler("bare", FALSE, "pass", "block"),
     Handler("Exception", TRUE, "raise_new", "block"),
     Handler("Exception", FALSE, "pass", "inline"),
     Handler("named", TRUE, "continue", "block"),
     FuncDef("module", "list", "tight", FALSE),
     FuncDef("nested", "list", "tight", FALSE),
     FuncDef("async", "list", "tight", FALSE),
     FuncDef("module", "list", "spaced", FALSE),
     RunCall("absent", "absent", "own", <<>>),
     RunCall("later", "absent", "inner", <<>>),
     Simple("open", "assign_close"),
     Simple("add_argument", "plain"),
     Simple("list_literal", "strs"),
     Simple("print", "print"),
     Simple("return_path", "concat"),
     Simple("yaml", "load"),
     Simple("json_loads", "bare")}

\* The texts given: no import lines, up to MaxSrc constructs.
SourceTexts ==
    {[imports |-> {}, body |-> b] : b \in SeqUpTo(Constructs, MaxSrc)}

\* packs=None, or a set of pack ids.
AllPacks == [given |-> FALSE, ids |-> {}]
Only(ids) == [given |-> TRUE, ids |-> ids]
PackSelections ==
    {AllPacks, Only({"BEX-001"}), Only({"MDA-003", "SUB-006"})}

\* ast.parse: a handler whose body was lost, or a call with a repeated
\* keyword, is a SyntaxError.
HasRepeat(seq) == \E i, j \in DOMAIN seq : i < j /\ seq[i] = seq[j]
Broken(c) ==
    \/ c.kind = "handler" /\ c.body = "missing"
    \/ c.kind = "run" /\ HasRepeat(c.inner)
Parsable(t) == \A i \in DOMAIN t.body : ~Broken(t.body[i])

\* fix_bex, lines 84-100: the whole line of a bare or broad handler becomes
\* the header `except (<ALLOWED_EXCS>)[ as name]:`.  Lines 102-118:
\* `import subprocess` is added when a handler
\* names subprocess.CalledProcessError, the result parses and has no such
\* import text.
FixBex(t) ==
    LET FixC(c) ==
            IF c.kind = "handler" /\ c.type \in {"bare", "Exception"}
            THEN [c EXCEPT !.type = "allowed",
                           !.body = IF c.layout = "inline" THEN "missing" ELSE @]
            ELSE c
        out == [t EXCEPT !.body = [i \in DOMAIN t.body |-> FixC(t.body[i])]]
        need == \E i \in DOMAIN out.body :
                    out.body[i].kind = "handler" /\ out.body[i].type = "allowed"
    IN  IF need /\ "subprocess" \notin out.imports /\ Parsable(out)
        THEN [out EXCEPT !.imports = @ \cup {"subprocess"}]
        ELSE out

\* fix_sil, lines 127-135.
FixSil(t) ==
    LET FixC(c) ==
            IF c.kind = "handler" /\ c.body \in {"pass", "continue"}
            THEN [c EXCEPT !.body = "raise"]
            ELSE c
    IN  [t EXCEPT !.body = [i \in DOMAIN t.body |-> FixC(t.body[i])]]

\* fix_mda, lines 146-173: the visitor has visit_FunctionDef only and does
\* not descend from it, so it sees neither an async def nor a def inside a
\* def; the default is rewritten only where the def line holds `<arg>=`;
\* the guard is inserted in any case.
FixMda(t) ==
    LET FixC(c) ==
            IF c.kind = "def" /\ c.ctx = "module" /\ c.default = "list" /\ ~c.guard
            THEN [c EXCEPT !.default = IF c.spelling = "tight" THEN "None" ELSE @,
                           !.guard = TRUE]
            ELSE c
    IN  [t EXCEPT !.body = [i \in DOMAIN t.body |-> FixC(t.body[i])]]

\* fix_sub, lines 184-209: the missing keywords go before the last `)` of
\* the first line of the call, unless that line has both texts already.
FixSub(t) ==
    LET OnFirstLine(c, kw) ==
            \/ c[kw] = "first"
            \/ \E i \in DOMAIN c.inner : c.inner[i] = kw
        FixC(c) ==
            IF c.kind # "run" THEN c
            ELSE LET need_check == c.check = "absent"
                     need_text == c.text = "absent"
                     parts == (IF need_check THEN <<"check">> ELSE <<>>)
                                \o (IF need_text THEN <<"text">> ELSE <<>>)
                 IN  IF ~(need_check \/ need_text) THEN c
                     ELSE IF OnFirstLine(c, "check") /\ OnFirstLine(c, "text") THEN c
                     ELSE IF c.paren = "own"
                          THEN [c EXCEPT !.check = IF need_check THEN "first" ELSE @,
                                         !.text = IF need_text THEN "first" ELSE @]
                     ELSE IF c.paren = "inner"
                          THEN [c EXCEPT !.inner = @ \o parts]
                     ELSE c
    IN  [t EXCEPT !.body = [i \in DOMAIN t.body |-> FixC(t.body[i])]]

\* fix_res, lines 225-256.
FixRes(t) ==
    LET FixC(c) ==
            IF c.kind = "open" /\ c.form = "assign_close" THEN [c EXCEPT !.form = "with"]
            ELSE c
    IN  [t EXCEPT !.body = [i \in DOMAIN t.body |-> FixC(t.body[i])]]

\* fix_arg, lines 277-312: choices are added when the text assigns a list
\* of string literals somewhere.
FixArg(t) ==
    LET choices_list == \E i \in DOMAIN t.body : t.body[i].kind = "list_literal"
        FixC(c) == IF c.kind = "add_argument" /\ c.form = "plain" /\ choices_list
                   THEN [c EXCEPT !.form = "choices"]
                   ELSE c
    IN  [t EXCEPT !.body = [i \in DOMAIN t.body |-> FixC(t.body[i])]]

\* fix_log, lines 338-393: print( becomes logger.info(; when anything
\* changed, the missing ones of `import logging` and the logger are added.
FixLog(t) ==
    LET FixC(c) ==
            IF c.kind = "print" /\ c.form = "print" THEN [c EXCEPT !.form = "logger.info"]
            ELSE c
        out == [t EXCEPT !.body = [i \in DOMAIN t.body |-> FixC(t.body[i])]]
    IN  IF out # t /\ Parsable(out)
        THEN [out EXCEPT !.imports = @ \cup {"logging", "logger"}]
        ELSE out

\* fix_err, lines 402-415.
FixErr(t) ==
    LET FixC(c) ==
            IF c.kind = "handler" /\ c.name /\ c.body = "raise_new"
            THEN [c EXCEPT !.body = "raise_from"]
            ELSE c
    IN  [t EXCEPT !.body = [i \in DOMAIN t.body |-> FixC(t.body[i])]]

\* fix_path, lines 428-454.
FixPath(t) ==
    LET FixC(c) ==
            IF c.kind = "return_path" /\ c.form = "concat" THEN [c EXCEPT !.form = "joinpath"]
            ELSE c
        out == [t EXCEPT !.body = [i \in DOMAIN t.body |-> FixC(t.body[i])]]
    IN  IF out # t THEN [out EXCEPT !.imports = @ \cup {"pathlib"}] ELSE out

\* fix_yaml, lines 458-461: a replacement over the whole text, made only
\* when the text has no yaml.safe_load( yet.
FixYaml(t) ==
    LET has(form) == \E i \in DOMAIN t.body :
                        t.body[i].kind = "yaml" /\ t.body[i].form = form
        FixC(c) == IF c.kind = "yaml" THEN [c EXCEPT !.form = "safe_load"] ELSE c
    IN  IF has("load") /\ ~has("safe_load")
        THEN [t EXCEPT !.body = [i \in DOMAIN t.body |-> FixC(t.body[i])]]
        ELSE t

\* fix_json, lines 476-516.
FixJson(t) ==
    LET FixC(c) ==
            IF c.kind = "json_loads" /\ c.form = "bare" THEN [c EXCEPT !.form = "guarded"]
            ELSE c
    IN  [t EXCEPT !.body = [i \in DOMAIN t.body |-> FixC(t.body[i])]]

Fixer(tf_id, t) ==
    CASE tf_id = "BEX-001" -> FixBex(t)
      [] tf_id = "SIL-002" -> FixSil(t)
      [] tf_id = "MDA-003" -> FixMda(t)
      [] tf_id = "SUB-006" -> FixSub(t)
      [] tf_id = "RES-005" -> FixRes(t)
      [] tf_id = "ARG-008" -> FixArg(t)
      [] tf_id = "LOG-010" -> FixLog(t)
      [] tf_id = "ERR-011" -> FixErr(t)
      [] tf_id = "PATH-014" -> FixPath(t)
      [] tf_id = "YAML-015" -> FixYaml(t)
      [] tf_id = "JSON-016" -> FixJson(t)

\* One diff of apply_all: the unified diff of a fixer's input and output,
\* that is the constructs it rewrote and the import lines it added.
Diff(tf_id, before, after) ==
    [tf_id |-> tf_id,
     changed |-> {i \in DOMAIN before.body : before.body[i] # after.body[i]},
     added |-> after.imports \ before.imports]

\* apply_all, lines 540-547: the loop over the fixers from position i on.
\* Every fixer but fix_yaml starts with ast.parse(src), whose SyntaxError
\* leaves the function.
RECURSIVE ApplyFrom(_, _, _, _)
ApplyFrom(i, curr, diffs, packs) ==
    IF i > Len(PackOrder)
    THEN [raised |-> FALSE, text |-> curr, diffs |-> diffs]
    ELSE IF packs.given /\ PackOrder[i] \notin packs.ids
    THEN ApplyFrom(i + 1, curr, diffs, packs)
    ELSE IF PackOrder[i] # "YAML-015" /\ ~Parsable(curr)
    THEN [raised |-> TRUE, text |-> curr, diffs |-> diffs]
    ELSE LET nxt == Fixer(PackOrder[i], curr)
         IN  ApplyFrom(i + 1, nxt,
                       IF nxt # curr
                       THEN Append(diffs, Diff(PackOrder[i], curr, nxt))
                       ELSE diffs,
                       packs)

apply_all(src, packs) == ApplyFrom(1, src, <<>>, packs)

\* The packs the scanner reports on one construct (scan.py, _Visitor).
\* visit_FunctionDef descends into nested defs; there is no
\* visit_AsyncFunctionDef, so the defaults of an async def are not looked at.
ScanC(c) ==
    CASE c.kind = "handler" ->
            (IF c.type \in {"bare", "Exception"} THEN {"BEX-001"} ELSE {})
            \cup (IF c.body \in {"pass", "continue"} THEN {"SIL-002"} ELSE {})
            \cup (IF c.name /\ c.body = "raise_new" THEN {"ERR-011"} ELSE {})
      [] c.kind = "def" ->
            IF c.ctx # "async" /\ c.default = "list" THEN {"MDA-003"} ELSE {}
      [] c.kind = "run" ->
            IF c.check = "absent" \/ c.text = "absent" THEN {"SUB-006"} ELSE {}
      [] c.kind = "open" -> IF c.form # "with" THEN {"RES-005"} ELSE {}
      [] c.kind = "add_argument" -> IF c.form = "plain" THEN {"ARG-008"} ELSE {}
      [] c.kind = "print" -> IF c.form = "print" THEN {"LOG-010"} ELSE {}
      [] c.kind = "return_path" -> IF c.form = "concat" THEN {"PATH-014"} ELSE {}
      [] c.kind = "yaml" -> IF c.form = "load" THEN {"YAML-015"} ELSE {}
      [] c.kind = "json_loads" -> IF c.form = "bare" THEN {"JSON-016"} ELSE {}
      [] OTHER -> {}

\* The findings of a text, per construct; ast.parse raises on a text that
\* does not parse (scan_paths, lines 637-641).
ScanText(t) ==
    [raised |-> ~Parsable(t),
     packs |-> IF Parsable(t) THEN [i \in DOMAIN t.body |-> ScanC(t.body[i])]
               ELSE <<>>]

\* cli.py line 303: the command calls apply_all(s, p), without its --packs.
CliApplyAll(src, packs) == apply_all(src, AllPacks)

InitPatch ==
    /\ GateIdle /\ IngestIdle /\ WaiveIdle /\ EmitIdle /\ RegistryIdle /\ ScanIdle
    /\ UnitsIdle
    /\ srcText \in SourceTexts
    /\ packsOpt \in PackSelections
    /\ patchLog = <<>>

\* A caller runs apply_all on the text it holds and keeps the result (the
\* second pass of the idempotence tests).
ApplyAllCall ==
    /\ Len(patchLog) < MaxPatchRuns
    /\ \E r \in {apply_all(srcText, packsOpt)} :
         /\ patchLog' = Append(patchLog,
                [op |-> "apply_all", before |-> srcText, raised |-> r.raised,
                 text |-> r.text, diffs |-> r.diffs, printed |-> <<>>,
                 dry |-> FALSE, do_apply |-> FALSE])
         /\ srcText' = IF r.raised THEN srcText ELSE r.text
    /\ UNCHANGED <<packsOpt, gateVars, waiverFile, ingestVars, waiveVars, emitVars,
                   registryVars, scanVars, unitVars>>

\* cli.py main, lines 289-312, for a repository of one source file outside
\* tests/: diffs are printed when dry, the file is rewritten when do_apply,
\* both only if there is a diff.  A SyntaxError ends the command.
CliPropose ==
    /\ Len(patchLog) < MaxPatchRuns
    /\ \E r \in {CliApplyAll(srcText, packsOpt)} :
       \E command \in {"propose", "apply"}, dry_run \in BOOLEAN, apply \in BOOLEAN :
         LET dry == dry_run \/ command = "propose"
             do_apply == apply \/ command = "apply"
             new == IF ~r.raised /\ r.diffs # <<>> /\ do_apply
                    THEN r.text ELSE srcText
         IN  /\ patchLog' = Append(patchLog,
                    [op |-> "propose", before |-> srcText, raised |-> r.raised,
                     text |-> new, diffs |-> r.diffs,
                     printed |-> IF ~r.raised /\ dry THEN r.diffs ELSE <<>>,
                     dry |-> dry, do_apply |-> do_apply])
             /\ srcText' = new
    /\ UNCHANGED <<packsOpt, gateVars, waiverFile, ingestVars, waiveVars, emitVars,
                   registryVars, scanVars, unitVars>>

NextPatch == ApplyAllCall \/ CliPropose

SpecPatch == InitPatch /\ [][NextPatch]_vars

\* C13: the patcher is idempotent: a pass of apply_all over the result of
\* a pass with the same packs returns that text and no diff, for every
\* text and every selection; and a propose --dry-run that follows a
\* propose --apply prints nothing.
C13_PatcherIdempotent ==
    \A k \in DOMAIN patchLog :
        (k > 1 /\ ~patchLog[k - 1].raised) =>
            /\ (patchLog[k - 1].op = "apply_all" /\ patchLog[k].op = "apply_all")
                  => /\ ~patchLog[k].raised
                     /\ patchLog[k].text = patchLog[k - 1].text
                     /\ patchLog[k].diffs = <<>>
            /\ (/\ patchLog[k - 1].op = "propose" /\ patchLog[k - 1].do_apply
                /\ patchLog[k].op = "propose" /\ patchLog[k].dry)
                  => ~patchLog[k].raised /\ patchLog[k].printed = <<>>

\* C14: after apply_all has run the fixer of BEX-001, SIL-002 or MDA-003, a
\* scan of the result reports no finding of that pack on any construct the
\* scan of the input reported it on, nested and async functions included.
C14_FixerResolvesFindings ==
    \A k \in DOMAIN patchLog :
        (patchLog[k].op = "apply_all" /\ ~patchLog[k].raised) =>
            \A tf_id \in {"BEX-001", "SIL-002", "MDA-003"} :
                (packsOpt.given => tf_id \in packsOpt.ids) =>
                    LET was == ScanText(patchLog[k].before)
                        now == ScanText(patchLog[k].text)
                    IN  was.raised \/
                        /\ ~now.raised
                        /\ \A i \in DOMAIN was.packs :
                               tf_id \in was.packs[i] => tf_id \notin now.packs[i]

\* C15: propose / apply with --packs P runs the fixers of P only: what it
\* prints and what it writes are the diffs and the text of
\* apply_all(source, path, P).
C15_ProposeHonoursPacks ==
    \A k \in DOMAIN patchLog :
        (patchLog[k].op = "propose" /\ ~patchLog[k].raised) =>
            LET r == apply_all(patchLog[k].before, packsOpt)
            IN  /\ ~r.raised
                /\ patchLog[k].dry => patchLog[k].printed = r.diffs
                /\ patchLog[k].do_apply => patchLog[k].text = r.text
                /\ \A i \in DOMAIN patchLog[k].diffs :
                       packsOpt.given => patchLog[k].diffs[i].tf_id \in packsOpt.ids

(***************************************************************************)
(* Task packets (agent_bridge.py): emit for the suggest-only packs,        *)
(* emit_tasks for the ambiguous findings.  A file of the tasks directory   *)
(* is known by its name: <PACK>-<nnn>.json for emit, task_<nnn>_<PACK>.json*)
(* for emit_tasks.                                                         *)
(***************************************************************************)
MaxFindings == 2

\* Lines 23-30.
SUGGEST_PACKS == {"SQL-007", "TYP-009", "ROL-012", "IOB-013", "CPL-017", "DUP-018"}

EmitFinding(pack, file, line, message, hint_tokens) ==
    [pack |-> pack, file |-> file, line |-> line, message |-> message,
     hint_tokens |-> hint_tokens]

EmitFindings ==
    {EmitFinding("SQL-007", "a.py", 2, "sql", <<"execute">>),
     EmitFinding("SQL-007", "a.py", 1, "sql", <<"execute">>),
     EmitFinding("ROL-012", "b.py", 1, "window", <<"slice">>),
     EmitFinding("BEX-001", "a.py", 1, "broad/bare except detected", <<"json.load">>),
     EmitFinding("BEX-001", "b.py", 1, "broad/bare except detected", <<>>),
     EmitFinding("SUB-006", "a.py", 1, "uses shell=True", <<"subprocess.run">>)}

EmitInputs == SeqUpTo(EmitFindings, MaxFindings)
EmitPackSelections == {AllPacks, Only({"SQL-007", "BEX-001"})}

\* The order of Python's str comparison on the pack ids and the files used.
SortedPacks == <<"BEX-001", "ROL-012", "SQL-007", "SUB-006">>
SortedFiles == <<"a.py", "b.py">>
Rank(seq, x) == CHOOSE i \in DOMAIN seq : seq[i] = x

\* Lines 109-113: sorted() with the key (pack, file, line): a stable
\* sort, here by insertion.
RECURSIVE InsertSorted(_, _)
InsertSorted(s, x) ==
    LET KeyLeq(f, g) ==
            LET pf == Rank(SortedPacks, f.pack)  pg == Rank(SortedPacks, g.pack)
                ff == Rank(SortedFiles, f.file)  fg == Rank(SortedFiles, g.file)
            IN  \/ pf < pg
                \/ pf = pg /\ ff < fg
                \/ pf = pg /\ ff = fg /\ f.line <= g.line
    IN  IF s = <<>> THEN <<x>>
        ELSE IF KeyLeq(s[Len(s)], x) THEN Append(s, x)
        ELSE Append(InsertSorted(SubSeq(s, 1, Len(s) - 1), x), s[Len(s)])
RECURSIVE SortFindings(_)
SortFindings(s) ==
    IF s = <<>> THEN <<>>
    ELSE InsertSorted(SortFindings(SubSeq(s, 1, Len(s) - 1)), s[Len(s)])

AllowedIgnoringPacks(packs) == SUGGEST_PACKS
\* Line 96.
Allowed(packs) ==
    IF ~packs.given THEN SUGGEST_PACKS ELSE packs.ids \cap SUGGEST_PACKS

PackName(pack, n) == [style |-> "pack", tf_id |-> pack, n |-> n]
TaskName(n, tf_id) == [style |-> "task", tf_id |-> tf_id, n |-> n]

\* Lines 122-129 and 170-178: what a packet says about its finding.
PacketData(f) == [tf_id |-> f.pack, file |-> f.file, line |-> f.line]

\* Lines 109-130: the loop over the sorted findings from position i on;
\* counts holds the packets numbered so far, per pack.
RECURSIVE EmitLoop(_, _, _, _, _)
EmitLoop(fs, i, counts, to_write, allowed) ==
    IF i > Len(fs) THEN to_write
    ELSE IF fs[i].pack \notin allowed
    THEN EmitLoop(fs, i + 1, counts, to_write, allowed)
    ELSE LET n == counts[fs[i].pack] + 1
         IN  EmitLoop(fs, i + 1, [counts EXCEPT ![fs[i].pack] = n],
                      Append(to_write, [name |-> PackName(fs[i].pack, n),
                                        data |-> PacketData(fs[i])]),
                      allowed)

\* Line 135: sorted(written); the paths order as (pack, number).
RECURSIVE InsertName(_, _)
InsertName(s, x) ==
    LET NameLeq(a, b) ==
            \/ Rank(SortedPacks, a.tf_id) < Rank(SortedPacks, b.tf_id)
            \/ a.tf_id = b.tf_id /\ a.n <= b.n
    IN  IF s = <<>> THEN <<x>>
        ELSE IF NameLeq(s[Len(s)], x) THEN Append(s, x)
        ELSE Append(InsertName(SubSeq(s, 1, Len(s) - 1), x), s[Len(s)])
RECURSIVE SortNames(_)
SortNames(s) ==
    IF s = <<>> THEN <<>>
    ELSE InsertName(SortNames(SubSeq(s, 1, Len(s) - 1)), s[Len(s)])

NamesOf(written) == [i \in DOMAIN written |-> written[i].name]
NameSet(written) == {written[i].name : i \in DOMAIN written}

\* emit, lines 88-135: the files written, in order, the list returned and
\* the directory afterwards (the packets of the allowed packs are removed
\* first, line 99-104).
emit(dir, findings, packs) ==
    LET allowed == Allowed(packs)
        written == EmitLoop(SortFindings(findings), 1,
                            [p \in allowed |-> 0], <<>>, allowed)
    IN  [written |-> written,
         returned |-> SortNames(NamesOf(written)),
         dir |-> {nm \in dir : ~(nm.style = "pack" /\ nm.tf_id \in allowed)}
                    \cup NameSet(written)]

\* _is_ambiguous_finding, lines 138-149.
IsAmbiguousFinding(f) ==
    \/ f.pack = "SUB-006" /\ f.message = "uses shell=True"
    \/ f.pack = "BEX-001"
         /\ \E i \in DOMAIN f.hint_tokens :
               f.hint_tokens[i] \in {"json.load", "json.loads", "[]-indexing",
                                     "subprocess.*"}

\* emit_tasks, lines 163-181: the loop over the findings in input order.
RECURSIVE TasksLoop(_, _, _, _)
TasksLoop(fs, i, n, tasks) ==
    IF i > Len(fs) THEN tasks
    ELSE IF ~IsAmbiguousFinding(fs[i]) THEN TasksLoop(fs, i + 1, n, tasks)
    ELSE TasksLoop(fs, i + 1, n + 1,
                   Append(tasks, [name |-> TaskName(n + 1, fs[i].pack),
                                  data |-> PacketData(fs[i])]))

\* emit_tasks, lines 152-186: nothing is removed.
emit_tasks(dir, findings) ==
    LET written == TasksLoop(findings, 1, 0, <<>>)
    IN  [written |-> written,
         returned |-> NamesOf(written),
         dir |-> dir \cup NameSet(written)]

EmitRecord(op, findings, packs, r) ==
    [op |-> op, findings |-> findings, packs |-> packs, before |-> tasksDir,
     written |-> r.written, returned |-> r.returned]

\* The tasks directory is as an earlier emission from an empty directory
\* left it; a behaviour is the next emission call.
InitEmit ==
    /\ GateIdle /\ IngestIdle /\ WaiveIdle /\ PatchIdle /\ RegistryIdle /\ ScanIdle
    /\ UnitsIdle
    /\ tasksDir \in
         {emit({}, fs, packs).dir : fs \in EmitInputs,
                                   packs \in EmitPackSelections}
         \cup {emit_tasks({}, fs).dir : fs \in EmitInputs}
    /\ lastEmit = NoEmit

Emit ==
    /\ lastEmit = NoEmit
    /\ \E findings \in EmitInputs, packs \in EmitPackSelections :
         \E r \in {emit(tasksDir, findings, packs)} :
            /\ tasksDir' = r.dir
            /\ lastEmit' = EmitRecord("emit", findings, packs, r)
    /\ UNCHANGED <<gateVars, waiverFile, ingestVars, waiveVars, patchVars,
                   registryVars, scanVars, unitVars>>

EmitTasks ==
    /\ lastEmit = NoEmit
    /\ \E findings \in EmitInputs :
         \E r \in {emit_tasks(tasksDir, findings)} :
            /\ tasksDir' = r.dir
            /\ lastEmit' = EmitRecord("emit_tasks", findings, AllPacks, r)
    /\ UNCHANGED <<gateVars, waiverFile, ingestVars, waiveVars, patchVars,
                   registryVars, scanVars, unitVars>>

NextEmit == Emit \/ EmitTasks

SpecEmit == InitEmit /\ [][NextEmit]_vars

\* C16: an emission replaces the earlier output: after a call of emit or
\* emit_tasks the packet files in the tasks directory are exactly the files
\* that call wrote.
C16_ReemissionReplaces ==
    lastEmit.op # "none" => tasksDir = NameSet(lastEmit.written)

\* How often a packet about finding f is among the packets written.
PacketsAbout(f) ==
    Cardinality({i \in DOMAIN lastEmit.written :
                    lastEmit.written[i].data = PacketData(f)})
\* How often finding f is in the input.
Occurrences(f) ==
    Cardinality({i \in DOMAIN lastEmit.findings : lastEmit.findings[i] = f})

\* C17: emit writes one packet per finding whose pack is suggest-only and,
\* when packs is given, in packs, and none for any other finding; the
\* packets of a pack are numbered 1, 2, ... without a gap in (file, line)
\* order; the list returned names exactly the files written.
C17_EmitOnePacketPerFinding ==
    lastEmit.op = "emit" =>
        LET w == lastEmit.written
            Wanted(f) == /\ f.pack \in SUGGEST_PACKS
                         /\ lastEmit.packs.given => f.pack \in lastEmit.packs.ids
        IN  /\ \A f \in EmitFindings :
                  PacketsAbout(f) = IF Wanted(f) THEN Occurrences(f) ELSE 0
            /\ Len(w) = Cardinality({i \in DOMAIN lastEmit.findings :
                                        Wanted(lastEmit.findings[i])})
            /\ \A i \in DOMAIN w :
                  /\ w[i].name.style = "pack"
                  /\ w[i].name.tf_id = w[i].data.tf_id
                  /\ w[i].name.n =
                        Cardinality({j \in DOMAIN w :
                            /\ w[j].name.tf_id = w[i].name.tf_id
                            /\ w[j].name.n <= w[i].name.n})
            /\ \A i, j \in DOMAIN w :
                  (w[i].name.tf_id = w[j].name.tf_id /\ w[i].name.n < w[j].name.n)
                      => \/ Rank(SortedFiles, w[i].data.file)
                              < Rank(SortedFiles, w[j].data.file)
                         \/ /\ w[i].data.file = w[j].data.file
                            /\ w[i].data.line <= w[j].data.line
            /\ Len(lastEmit.returned) = Len(w)
            /\ {lastEmit.returned[i] : i \in DOMAIN lastEmit.returned} = NameSet(w)
            /\ NameSet(w) \subseteq tasksDir

\* C17 witness: two findings of one selected pack given in reverse line
\* order: packet 001 is about line 1, packet 002 about line 2
C17_Witness ==
    /\ lastEmit.op = "emit" /\ lastEmit.packs.given
    /\ Len(lastEmit.findings) = 2
    /\ lastEmit.findings[1].pack = "SQL-007" /\ lastEmit.findings[1].line = 2
    /\ lastEmit.findings[2].pack = "SQL-007" /\ lastEmit.findings[2].line = 1
    /\ Len(lastEmit.written) = 2
    /\ lastEmit.written[1].name = PackName("SQL-007", 1)
    /\ lastEmit.written[1].data.line = 1
    /\ lastEmit.written[2].name = PackName("SQL-007", 2)

\* C18: emit_tasks writes a packet for every finding of a suggest-only pack
\* and for every ambiguous finding (SUB-006 with shell=True, BEX-001 with a
\* domain hint token), and for no other finding.
C18_EmitTasksCoversSuggestOnly ==
    lastEmit.op = "emit_tasks" =>
        \A f \in EmitFindings :
            PacketsAbout(f) =
                IF f.pack \in SUGGEST_PACKS \/ IsAmbiguousFinding(f)
                THEN Occurrences(f) ELSE 0

(***************************************************************************)
(* Registry validation (cli.py): _validate_tf on every record, then main   *)
(* either reports and returns 2 or goes on to the stage.  A record is      *)
(* abstracted to the required top-level fields it lacks and to its         *)
(* meta.severity; its other fields are well-formed.                        *)
(***************************************************************************)
MaxTfs == 2

\* Line 140.
RequiredFields ==
    <<"tf_id", "name", "meta", "E", "O", "L", "IO", "verify", "links">>
\* Line 160.
Severities == {"low", "medium", "high"}

Tf(missing, severity) == [missing |-> missing, severity |-> severity]
\* severity "absent": meta has no severity key (or there is no meta).
Registries ==
    SeqUpTo({Tf(mf, sev) : mf \in {{}, {"links"}, {"name", "links"}},
                           sev \in {"low", "critical", "absent"}}
            \cup {Tf({"meta"}, "absent")}, MaxTfs)

MissingError(k) == [error |-> "missing field", field |-> k]
SeverityRequired == [error |-> "required", field |-> "meta.severity"]
SeverityError == [error |-> "must be one of low|medium|high", field |-> "meta.severity"]

\* Lines 139-142: one error per missing required field, in field order.
RECURSIVE MissingErrors(_, _)
MissingErrors(tf, i) ==
    IF i > Len(RequiredFields) THEN <<>>
    ELSE (IF RequiredFields[i] \in tf.missing
          THEN <<MissingError(RequiredFields[i])>> ELSE <<>>)
         \o MissingErrors(tf, i + 1)

\* _validate_tf, lines 137-233: a record that lacks a required field is
\* returned with the missing-field errors only (lines 143-144); otherwise
\* the checks of meta.severity (lines 152-161) are made.
ValidateTf(tf) ==
    LET errors == MissingErrors(tf, 1)
    IN  IF errors # <<>> THEN errors
        ELSE (IF tf.severity = "absent" THEN <<SeverityRequired>> ELSE <<>>)
             \o (IF tf.severity \notin Severities
                 THEN <<SeverityError>> ELSE <<>>)

\* main, lines 263-268: the records with errors, each with its errors.
RECURSIVE CollectErrors(_, _)
CollectErrors(records, i) ==
    IF i > Len(records) THEN <<>>
    ELSE LET es == ValidateTf(records[i])
         IN  (IF es # <<>> THEN <<[record |-> i, errors |-> es]>> ELSE <<>>)
             \o CollectErrors(records, i + 1)

InitRegistry ==
    /\ GateIdle /\ IngestIdle /\ WaiveIdle /\ PatchIdle /\ EmitIdle /\ ScanIdle
    /\ UnitsIdle
    /\ tfs \in Registries
    /\ cliOut = [done |-> FALSE]

\* main, lines 262-272, then the stage of the command.
CliMain ==
    /\ ~cliOut.done
    /\ \E command \in {"scan", "propose", "apply", "verify", "agent"} :
         \E errors \in {CollectErrors(tfs, 1)} :
            cliOut' = IF errors # <<>>
                      THEN [done |-> TRUE, rc |-> 2, printed |-> errors,
                            stage |-> "none"]
                      ELSE [done |-> TRUE, rc |-> 0, printed |-> <<>>,
                            stage |-> command]
    /\ UNCHANGED <<tfs, gateVars, waiverFile, ingestVars, waiveVars, patchVars,
                   emitVars, scanVars, unitVars>>

NextRegistry == CliMain

SpecRegistry == InitRegistry /\ [][NextRegistry]_vars

\* The violations of a record: every required field it lacks, top-level
\* or meta.severity, and its severity when that is given and is not one of
\* low, medium, high.
Violations(tf) ==
    {MissingError(k) : k \in tf.missing}
    \cup (IF "meta" \notin tf.missing /\ tf.severity = "absent"
          THEN {SeverityRequired} ELSE {})
    \cup (IF tf.severity \notin Severities \cup {"absent"}
          THEN {SeverityError} ELSE {})

\* C19: validation is exhaustive and aggregated: every violation of every
\* record, missing fields and bad severity alike, also both in one record,
\* is reported by the one invocation; any violation makes main return 2
\* before a stage runs.
C19_ValidationExhaustive ==
    cliOut.done =>
        /\ \A k \in DOMAIN tfs : \A v \in Violations(tfs[k]) :
              \E j \in DOMAIN cliOut.printed :
                  /\ cliOut.printed[j].record = k
                  /\ \E e \in DOMAIN cliOut.printed[j].errors :
                         cliOut.printed[j].errors[e] = v
        /\ (\E k \in DOMAIN tfs : Violations(tfs[k]) # {})
              => cliOut.rc = 2 /\ cliOut.stage = "none"

(***************************************************************************)
(* scan_paths (scan.py 630-648).  A path is its components, the state of   *)
(* the file behind it and the number of findings its text yields; `root`   *)
(* says where the file really lies.                                        *)
(***************************************************************************)
MaxPaths == 3

PathTo(parts, root, file, nfind) ==
    [parts |-> parts, root |-> root, file |-> file, nfind |-> nfind]

ScanPathsUniverse ==
    {PathTo(<<"tests", "t.py">>, "tests", "ok", 1),
     PathTo(<<".", "tests", "fixtures", "bad.py">>, "tests", "unparsable", 0),
     PathTo(<<"tests", "gone.py">>, "tests", "unreadable", 0),
     PathTo(<<".", "tools", "a.py">>, "tools", "ok", 1),
     PathTo(<<"tools", "bad.py">>, "tools", "unparsable", 0),
     PathTo(<<"tests_util", "u.py">>, "tests_util", "ok", 1),
     PathTo(<<"tools", "notes.txt">>, "tools", "ok", 0)}

\* Line 633: path.endswith(".py").
EndsWithPy(path) ==
    path.parts[Len(path.parts)] \in {"t.py", "bad.py", "gone.py", "a.py", "u.py"}

\* os.path.relpath: the path relative to the working directory, without
\* `.` components.
RECURSIVE RelPath(_)
RelPath(parts) ==
    IF parts = <<>> THEN <<>>
    ELSE IF Head(parts) = "." THEN RelPath(Tail(parts))
    ELSE <<Head(parts)>> \o RelPath(Tail(parts))

UnderTestsRaw(path) == Len(path.parts) > 1 /\ path.parts[1] = "tests"
\* Line 635: os.path.relpath(path).startswith("tests/").
UnderTests(path) ==
    LET rel == RelPath(path.parts) IN Len(rel) > 1 /\ rel[1] = "tests"

\* scan_paths, lines 632-644: the loop from position i on; reading or
\* parsing a file that is not ok raises, and the findings of a file
\* (lines 642-644) are kept unless they are under the tests root.
RECURSIVE ScanLoop(_, _, _)
ScanLoop(ps, i, out) ==
    IF i > Len(ps) THEN [done |-> TRUE, raised |-> FALSE, out |-> out]
    ELSE IF ~EndsWithPy(ps[i]) THEN ScanLoop(ps, i + 1, out)
    ELSE IF UnderTests(ps[i]) THEN ScanLoop(ps, i + 1, out)
    ELSE IF ps[i].file # "ok" THEN [done |-> TRUE, raised |-> TRUE, out |-> <<>>]
    ELSE ScanLoop(ps, i + 1,
                  out \o SelectSeq([k \in 1..ps[i].nfind |->
                                      [file |-> ps[i], line |-> k]],
                                   LAMBDA f : ~UnderTests(f.file)))

scan_pathsSkipping(ps) ==
    ScanLoop(SelectSeq(ps, LAMBDA q : q.file = "ok"), 1, <<>>)
scan_paths(ps) == ScanLoop(ps, 1, <<>>)

InitScan ==
    /\ GateIdle /\ IngestIdle /\ WaiveIdle /\ PatchIdle /\ EmitIdle /\ RegistryIdle
    /\ UnitsIdle
    /\ paths \in SeqUpTo(ScanPathsUniverse, MaxPaths)
    /\ scanOut = [done |-> FALSE]

ScanPaths ==
    /\ ~scanOut.done
    /\ scanOut' = scan_paths(paths)
    /\ UNCHANGED <<paths, gateVars, waiverFile, ingestVars, waiveVars, patchVars,
                   emitVars, registryVars, unitVars>>

NextScan == ScanPaths

SpecScan == InitScan /\ [][NextScan]_vars

\* C20: no finding returned by scan_paths is in a file under the tests
\* root, whatever the paths given; and the files under that root are left
\* out before they are read: the scan raises only when a .py file outside
\* the tests root cannot be read or parsed.
C20_TestsRootExcluded ==
    scanOut.done =>
        /\ ~scanOut.raised =>
              \A i \in DOMAIN scanOut.out : scanOut.out[i].file.root # "tests"
        /\ scanOut.raised =>
              \E i \in DOMAIN paths :
                  /\ paths[i].root # "tests" /\ EndsWithPy(paths[i])
                  /\ paths[i].file # "ok"

\* C20 witness: an unparsable fixture, written ./tests/..., and a file with
\* findings under tests/ are given along with a file outside: the scan
\* returns the findings of the latter only
C20_Witness ==
    /\ scanOut.done /\ ~scanOut.raised
    /\ \E i \in DOMAIN paths :
          paths[i].root = "tests" /\ paths[i].file = "unparsable"
             /\ paths[i].parts[1] = "."
    /\ \E i \in DOMAIN paths : paths[i].root = "tests" /\ paths[i].nfind > 0
    /\ Len(scanOut.out) = 1 /\ scanOut.out[1].file.root = "tools"

\* The audited files of the input: the .py files outside the tests root.
Audited(i) == EndsWithPy(paths[i]) /\ paths[i].root # "tests"

\* C21: a read or parse failure of an audited file is never skipped: when
\* any audited file of the input cannot be read or parsed, wherever it is
\* in the list and however many files were scanned before it, scan_paths
\* raises and returns no findings.
C21_ScanErrorPropagates ==
    scanOut.done =>
        /\ (\E i \in DOMAIN paths : Audited(i) /\ paths[i].file # "ok")
              => scanOut.raised
        /\ scanOut.raised => scanOut.out = <<>>

\* C21 witness: the failing file is last, after two audited files that
\* were scanned with findings
C21_Witness ==
    /\ scanOut.done /\ scanOut.raised /\ Len(paths) = 3
    /\ Audited(3) /\ paths[3].file = "unparsable"
    /\ \A i \in {1, 2} : Audited(i) /\ paths[i].file = "ok" /\ paths[i].nfind > 0

(***************************************************************************)
(* JSON-016 (scan.py, _Visitor): visit_Call at a json.loads call, with the *)
(* stack of the nodes around it.  A node is a Try with the types of its    *)
(* handlers, or a FunctionDef; a handler type is the form of its           *)
(* expression (no type, a Name, an Attribute, a Tuple) and the dotted      *)
(* names in it.                                                            *)
(***************************************************************************)
MaxDepth == 3

StackNodes ==
    LET HandlerType(form, names) == [form |-> form, names |-> names]
        TryNode(handlers) == [node |-> "Try", handlers |-> handlers]
    IN
    {TryNode(<<HandlerType("attribute", {"json.JSONDecodeError"})>>),
     TryNode(<<HandlerType("tuple", {"json.JSONDecodeError", "KeyError"})>>),
     TryNode(<<HandlerType("tuple", {"KeyError", "ValueError"})>>),
     TryNode(<<HandlerType("name", {"KeyError"})>>),
     TryNode(<<HandlerType("none", {})>>),
     TryNode(<<HandlerType("name", {"KeyError"}),
               HandlerType("attribute", {"json.JSONDecodeError"})>>),
     [node |-> "FunctionDef", handlers |-> <<>>]}

\* _has_json_decode_handler_here, lines 127-135: some Try of the stack has
\* a handler whose type is the Attribute json.JSONDecodeError.
HasJsonDecodeHandlerHere(stack) ==
    \E i \in DOMAIN stack :
        /\ stack[i].node = "Try"
        /\ \E h \in DOMAIN stack[i].handlers :
              /\ stack[i].handlers[h].form = "attribute"
              /\ stack[i].handlers[h].names = {"json.JSONDecodeError"}

InitVisit ==
    /\ GateIdle /\ IngestIdle
    /\ WaiveIdle /\ PatchIdle /\ EmitIdle /\ RegistryIdle /\ ScanIdle
    /\ EditIdle /\ VerifyIdle
    /\ callStack \in SeqUpTo(StackNodes, MaxDepth)
    /\ jsonFlag = "unvisited"

\* visit_Call, lines 489-502, for name == "json.loads".
VisitCall ==
    /\ jsonFlag = "unvisited"
    /\ jsonFlag' = IF ~HasJsonDecodeHandlerHere(callStack)
                   THEN "flagged" ELSE "clean"
    /\ UNCHANGED <<callStack, gateVars, waiverFile, ingestVars, waiveVars,
                   patchVars, emitVars, registryVars, scanVars, editVars,
                   verifyVars>>

SpecVisit == InitVisit /\ [][VisitCall]_vars

\* C22: a json.loads call is flagged JSON-016 if and only if no try around
\* it has a handler that names json.JSONDecodeError, alone or as a member
\* of a tuple of types.
C22_JsonFlaggedIffUnhandled ==
    jsonFlag # "unvisited" =>
        (jsonFlag = "flagged" <=>
            ~\E i \in DOMAIN callStack :
                /\ callStack[i].node = "Try"
                /\ \E h \in DOMAIN callStack[i].handlers :
                      "json.JSONDecodeError"
                          \in callStack[i].handlers[h].names)

\* The isolated copy holds the whole batch: it is the worktree as created,
\* with every new file written and every modification diff applied.
AllApplied ==
    \E base \in {head, Overlay(head, main)} :
        LET r == ApplyPatchesIn(WriteNewFiles(base, NewFiles(batch)),
                                ApplyDiffs(batch))
        IN  r.ok /\ wt = r.tree

\* C23: within an invocation the main tree changes only in the merge step,
\* which is reached only from a validator run that passed; the validators
\* run only on an isolated copy that holds every new file and every
\* modification diff of the batch.
C23_MergeOnlyAfterVerify ==
    [][/\ main' # main =>
             pc = "merge" /\ AllApplied /\ RunVerify(wt, badContent)
       /\ pc' = "verify" => pc = "apply" /\ AllApplied'
       /\ pc' = "merge" => pc = "verify" /\ RunVerify(wt, badContent)]_vars

\* C23 witness: a batch with a new file and a modification diff has been
\* merged and changed the main tree
C23_Witness ==
    /\ pc = "remove" /\ pending.outcome = "merged" /\ main # mainBefore
    /\ NewFiles(batch) # <<>> /\ ApplyDiffs(batch) # <<>>

\* The number of documents of ops, taken in order from tree, that change
\* the tree when they are brought into it: a document leaves its file with
\* its new content, and changes the tree unless the file holds it already.
RECURSIVE ChangesMade(_, _)
ChangesMade(tree, ops) ==
    IF ops = <<>> THEN 0
    ELSE (IF tree[Head(ops).rel] # Head(ops).to THEN 1 ELSE 0)
         + ChangesMade([tree EXCEPT ![Head(ops).rel] = Head(ops).to], Tail(ops))

\* C24: on the merged path the accepted count is the number of changes
\* made to the main tree: a new file counts when its content differs from
\* what is there, a modification diff counts unless its reverse probe
\* succeeds (the file holds its new content already); every document of
\* the batch is then in the main tree.
C24_AcceptedCountsChanges ==
    \A k \in DOMAIN runs :
        runs[k].outcome = "merged" =>
            /\ runs[k].accepted =
                  ChangesMade(runs[k].mainBefore,
                              NewFiles(batch) \o ApplyDiffs(batch))
            /\ \A i \in DOMAIN ApplyDiffs(batch) :
                  GitReverseCheck(runs[k].mainAfter, ApplyDiffs(batch)[i])
                  \/ \E j \in DOMAIN batch :
                        /\ batch[j].rel = ApplyDiffs(batch)[i].rel
                        /\ batch[j] # ApplyDiffs(batch)[i]

\* C24 witness: a merge that wrote one document and skipped another: a new
\* file already present with that content, and a diff applied forward
C24_Witness ==
    \E k \in DOMAIN runs :
        /\ runs[k].outcome = "merged" /\ runs[k].accepted = 1
        /\ Len(NewFiles(batch)) = 1 /\ Len(ApplyDiffs(batch)) = 1
        /\ runs[k].mainBefore[NewFiles(batch)[1].rel] = NewFiles(batch)[1].to
        /\ runs[k].mainBefore[ApplyDiffs(batch)[1].rel] = ApplyDiffs(batch)[1].from
        /\ NewFiles(batch)[1].rel # ApplyDiffs(batch)[1].rel

(***************************************************************************)
(* _apply_edits (patch_cst.py 47-58).  A text is its sequence of           *)
(* characters; an edit has a start and an end, each a <<line, col>> with   *)
(* lines counted from 1 and columns from 0, and a replacement text.        *)
(***************************************************************************)
MaxEdits == 2

Edit(start, end, replacement) ==
    [start |-> start, end |-> end, replacement |-> replacement]

\* The edits between four positions of the text "ab\ncd", start not after
\* end, that put in nothing, X or Y.
Edits ==
    LET Positions == <<(<<1, 0>>), (<<1, 1>>), (<<2, 0>>), (<<2, 1>>)>>
    IN  {Edit(Positions[ij[1]], Positions[ij[2]], r) :
            ij \in {q \in (1..4) \X (1..4) : q[1] <= q[2]},
            r \in {<<>>, <<"X">>, <<"Y">>}}

\* to_offset, lines 51-52: the lengths of the lines before `line`, as
\* src.splitlines(True) cuts them, plus col.
ToOffset(src, pos) ==
    LET nl == {i \in DOMAIN src : src[i] = "\n"}
        before == IF pos[1] = 1 THEN 0
                  ELSE IF Cardinality(nl) < pos[1] - 1 THEN Len(src)
                  ELSE CHOOSE i \in nl :
                          Cardinality({j \in nl : j <= i}) = pos[1] - 1
    IN  before + pos[2]

\* Line 54: sorted(edits, key=(start line, start col, end line, end col),
\* reverse=True); the sort is stable, edits with equal keys keep the order
\* they were supplied in.
RECURSIVE SortEditsDesc(_)
SortEditsDesc(edits) ==
    LET Key(e) == <<e.start[1], e.start[2], e.end[1], e.end[2]>>
        Less(a, b) ==
            \E k \in 1..4 : a[k] < b[k] /\ \A m \in 1..(k - 1) : a[m] = b[m]
        RECURSIVE Insert(_, _)
        Insert(s, x) ==
            IF s = <<>> THEN <<x>>
            ELSE IF ~Less(Key(s[Len(s)]), Key(x)) THEN Append(s, x)
            ELSE Append(Insert(SubSeq(s, 1, Len(s) - 1), x), s[Len(s)])
    IN  IF edits = <<>> THEN <<>>
        ELSE Insert(SortEditsDesc(SubSeq(edits, 1, Len(edits) - 1)),
                    edits[Len(edits)])

\* _apply_edits, lines 47-58: every edit in turn, in sorted order, cuts
\* the current text at the offsets it has in the original text.
ApplyEdits(src, edits) ==
    LET Min(a, b) == IF a < b THEN a ELSE b
        RECURSIVE Loop(_, _)
        Loop(flat, sorted) ==
            IF sorted = <<>> THEN flat
            ELSE LET e == Head(sorted)
                     s == Min(ToOffset(src, e.start), Len(flat))
                     tt == Min(ToOffset(src, e.end), Len(flat))
                 IN  Loop(SubSeq(flat, 1, s) \o e.replacement
                              \o SubSeq(flat, tt + 1, Len(flat)),
                          Tail(sorted))
    IN  IF edits = <<>> THEN src ELSE Loop(src, SortEditsDesc(edits))

InitEdits ==
    /\ GateIdle /\ IngestIdle
    /\ WaiveIdle /\ PatchIdle /\ EmitIdle /\ RegistryIdle /\ ScanIdle
    /\ VisitIdle /\ VerifyIdle
    /\ editSrc = <<"a", "b", "\n", "c", "d">>
    /\ editList \in SeqUpTo(Edits, MaxEdits)
    /\ editOut = [done |-> FALSE]

ApplyEditsCall ==
    /\ ~editOut.done
    /\ editOut' = [done |-> TRUE, text |-> ApplyEdits(editSrc, editList)]
    /\ UNCHANGED <<editSrc, editList, gateVars, waiverFile, ingestVars,
                   waiveVars, patchVars, emitVars, registryVars, scanVars,
                   visitVars, verifyVars>>

SpecEdits == InitEdits /\ [][ApplyEditsCall]_vars

\* The regions of the edits, as offsets into the text, do not overlap.
NonOverlapping ==
    \A i, j \in DOMAIN editList :
        i # j =>
            \/ ToOffset(editSrc, editList[i].end)
                  <= ToOffset(editSrc, editList[j].start)
            \/ ToOffset(editSrc, editList[j].end)
                  <= ToOffset(editSrc, editList[i].start)

\* The edits in another order.
Arrangements ==
    {[i \in DOMAIN editList |-> editList[f[i]]] :
        f \in {g \in [DOMAIN editList -> DOMAIN editList] :
                  \A a, b \in DOMAIN editList : a # b => g[a] # g[b]}}

\* The simultaneous replacement: the text from position i on, with the
\* regions of arr, which are in document order, replaced.
RECURSIVE Spliced(_, _)
Spliced(from, arr) ==
    IF arr = <<>> THEN SubSeq(editSrc, from + 1, Len(editSrc))
    ELSE SubSeq(editSrc, from + 1, ToOffset(editSrc, Head(arr).start))
         \o Head(arr).replacement
         \o Spliced(ToOffset(editSrc, Head(arr).end), Tail(arr))

\* C25: for edits with pairwise non-overlapping regions the text returned
\* is the simultaneous replacement of every region in the original text,
\* and is the same in whatever order the edits are supplied, zero-width
\* insertions that start where another edit starts included.
C25_EditsOrderIndependent ==
    (editOut.done /\ NonOverlapping) =>
        /\ \A arr \in Arrangements : ApplyEdits(editSrc, arr) = editOut.text
        /\ \E arr \in Arrangements :
              /\ \A i \in 1..(Len(arr) - 1) :
                    ToOffset(editSrc, arr[i].end)
                        <= ToOffset(editSrc, arr[i + 1].start)
              /\ editOut.text = Spliced(0, arr)

\* The registration order of the fixers.
Registration ==
    <<"BEX-001", "SIL-002", "MDA-003", "SUB-006", "RES-005", "ARG-008",
      "LOG-010", "ERR-011", "PATH-014", "YAML-015", "JSON-016">>

\* The texts a run of the fixers goes through: texts[1] is src, and
\* texts[i + 1] is the text after the first i fixers of the registration
\* order, those of the selected packs run, each on the text its
\* predecessor left.
RECURSIVE TextsFrom(_, _)
TextsFrom(texts, packs) ==
    IF Len(texts) > Len(Registration) THEN texts
    ELSE LET tf_id == Registration[Len(texts)]
             prev == texts[Len(texts)]
         IN  TextsFrom(Append(texts,
                              IF packs.given /\ tf_id \notin packs.ids THEN prev
                              ELSE Fixer(tf_id, prev)),
                       packs)

\* C26: apply_all runs the fixers of the selected packs in the
\* registration order, each on the text the previous one produced; it
\* records one diff, in that order, for exactly the fixers that changed
\* their input, so that the diffs are empty if and only if the text
\* returned is the input text.  (Stated of the call that has just
\* ended: every call is the last entry of the log in the state after it.)
C26_ApplyAllOrderAndDiffs ==
    \A k \in {Len(patchLog)} \ {0} :
        (patchLog[k].op = "apply_all" /\ ~patchLog[k].raised) =>
            \A texts \in {TextsFrom(<<patchLog[k].before>>, packsOpt)} :
                \A changing \in {SelectSeq([i \in 1..Len(Registration) |-> i],
                                           LAMBDA i : texts[i + 1] # texts[i])} :
                    /\ patchLog[k].text = texts[Len(texts)]
                    /\ Len(patchLog[k].diffs) = Len(changing)
                    /\ \A j \in DOMAIN changing :
                          patchLog[k].diffs[j] =
                              Diff(Registration[changing[j]],
                                   texts[changing[j]], texts[changing[j] + 1])
                    /\ patchLog[k].diffs = <<>>
                          <=> patchLog[k].text = patchLog[k].before

\* C26 witness: with every pack selected two fixers changed the text, the
\* later one the text the earlier one left, and the fixers between them
\* recorded nothing
C26_Witness ==
    \E k \in {Len(patchLog)} \ {0} :
        /\ patchLog[k].op = "apply_all" /\ ~patchLog[k].raised
        /\ ~packsOpt.given
        /\ Len(patchLog[k].diffs) = 2
        /\ patchLog[k].diffs[1].tf_id = "BEX-001"
        /\ patchLog[k].diffs[2].tf_id = "ERR-011"
        /\ patchLog[k].diffs[1].changed = patchLog[k].diffs[2].changed

(***************************************************************************)
(* run_verify (verify.py 9-42), one step per validator.  The environment   *)
(* says whether HDAE_SKIP_INNER_PYTEST is set, what HDAE_VERIFY_SCOPE is   *)
(* and how each tool ends when it is started: it exits zero, exits         *)
(* non-zero (CalledProcessError) or cannot be started (an OSError, which   *)
(* run_verify does not catch).                                             *)
(***************************************************************************)
\* Lines 16-31: the commands due, in order, with their targets.
Checks(env) ==
    LET targets == IF env.scope = "tools" THEN <<"tools/hdae">>
                   ELSE <<"tools/hdae", "tests/hdae">>
    IN  <<[tool |-> "ruff", targets |-> targets],
          [tool |-> "mypy", targets |-> targets]>>
        \o (IF env.skip THEN <<>>
            ELSE <<[tool |-> "pytest", targets |-> <<>>]>>)

InitRunVerify ==
    /\ GateIdle /\ IngestIdle
    /\ WaiveIdle /\ PatchIdle /\ EmitIdle /\ RegistryIdle /\ ScanIdle
    /\ VisitIdle /\ EditIdle
    /\ verifyEnv \in [skip : BOOLEAN, scope : {"tools", "all"},
                       ends : [{"ruff", "mypy", "pytest"} ->
                                  {"zero", "nonzero", "cannot_start"}]]
    /\ verifyLog = <<>>
    /\ verifyOut = [done |-> FALSE]

RunCheckKeepsGoing ==
    /\ ~verifyOut.done
    /\ Len(verifyLog) < Len(Checks(verifyEnv))
    /\ verifyLog' = Append(verifyLog, Checks(verifyEnv)[Len(verifyLog) + 1])
    /\ UNCHANGED <<verifyEnv, verifyOut, gateVars, waiverFile, ingestVars,
                   waiveVars, patchVars, emitVars, registryVars, scanVars,
                   visitVars, editVars>>
\* Lines 34-41: the next command of the loop is started; a non-zero exit
\* returns (False, output) at once.
RunCheck ==
    /\ ~verifyOut.done
    /\ Len(verifyLog) < Len(Checks(verifyEnv))
    /\ LET cmd == Checks(verifyEnv)[Len(verifyLog) + 1]
       IN  /\ verifyLog' = Append(verifyLog, cmd)
           /\ verifyOut' =
                 CASE verifyEnv.ends[cmd.tool] = "zero" -> verifyOut
                   [] verifyEnv.ends[cmd.tool] = "nonzero" ->
                        [done |-> TRUE, raised |-> FALSE, ok |-> FALSE]
                   [] OTHER ->
                        [done |-> TRUE, raised |-> TRUE, ok |-> FALSE]
    /\ UNCHANGED <<verifyEnv, gateVars, waiverFile, ingestVars, waiveVars,
                   patchVars, emitVars, registryVars, scanVars, visitVars,
                   editVars>>

\* Line 42: the loop is over, (True, output) is returned.
RunVerifyReturn ==
    /\ ~verifyOut.done
    /\ Len(verifyLog) = Len(Checks(verifyEnv))
    /\ verifyOut' = [done |-> TRUE, raised |-> FALSE, ok |-> TRUE]
    /\ UNCHANGED <<verifyEnv, verifyLog, gateVars, waiverFile, ingestVars,
                   waiveVars, patchVars, emitVars, registryVars, scanVars,
                   visitVars, editVars>>

SpecRunVerify == InitRunVerify /\ [][RunCheck \/ RunVerifyReturn]_vars

\* C27: the validators are started in the fixed order lint, type check,
\* tests (unless skipped), each at most once; none is started after one
\* that exited non-zero; and what run_verify returns is ok = true exactly
\* when every validator due exited zero.
C27_VerifySequentialNoRetry ==
    /\ Len(verifyLog) <= Len(Checks(verifyEnv))
    /\ verifyLog = SubSeq(Checks(verifyEnv), 1, Len(verifyLog))
    /\ \A i \in 1..(Len(verifyLog) - 1) :
          verifyEnv.ends[verifyLog[i].tool] = "zero"
    /\ (verifyOut.done /\ ~verifyOut.raised) =>
          (verifyOut.ok <=>
              \A i \in DOMAIN Checks(verifyEnv) :
                  verifyEnv.ends[Checks(verifyEnv)[i].tool] = "zero")

\* C27 witness: the type check exits non-zero with the tests due and able
\* to pass: run_verify returns not ok and the tests were never started
C27_Witness ==
    /\ verifyOut.done /\ ~verifyOut.raised /\ ~verifyOut.ok
    /\ ~verifyEnv.skip /\ verifyEnv.ends["pytest"] = "zero"
    /\ Len(verifyLog) = 2
    /\ verifyLog[1].tool = "ruff" /\ verifyLog[2].tool = "mypy"

\* The waiver file with one more explicit marker line for id g.
WithMarker(wf, g) == [wf EXCEPT !.text = Append(@, Piece("tf_marker", g))]

\* C28: the waiver count is monotone in the content of the waiver file:
\* with one more explicit marker line for a gated pack id appended to an
\* existing waiver file, the gate computes no smaller waiver count than
\* before and, for the same findings and footprint, does not fail where
\* it passed.
C28_WaiverCountMonotone ==
    (verdict.done /\ waiverFile.state = "ok") =>
        \A g \in gate_ids :
            /\ CountWaivers(WithMarker(waiverFile, g), gate_ids) >= verdict.waivers
            /\ verdict.code = 0 =>
                  ComputeGateResult(scan, changed, WithMarker(waiverFile, g),
                                    gate_ids).code = 0

\* The findings streams of at most one line: those with l1_in_pr <= 1.
ShortScans ==
    {ScanAbsent} \cup {[exists |-> TRUE, lines |-> <<l>>] : l \in ScanLines}

\* The values of l1_in_pr those streams give, per set of gated ids.
ShortL1 ==
    [gids \in GateIdSets |->
        {L1InPr(JsonlLines(sf), gids, ch) : sf \in ShortScans, ch \in Footprints}]

\* C29: once an invocation of ingest has ended patch-rejected or
\* verify-rejected, the waiver file of the change holds the block it
\* appended, and from then on the gate counts waivers >= 1 in it and its
\* remaining_l1 and exit code are 0 whenever l1_in_pr <= 1, although the
\* block names no pack; the whole verdict is computed on every short stream
\* when the first invocation has returned rejected.
C29_RejectionFeedsGate ==
    (\E k \in DOMAIN runs : runs[k].outcome \in Rejected) =>
        /\ waiverFile.state = "ok"
        /\ \E i \in DOMAIN waiverFile.text :
              waiverFile.text[i].kind = "block" /\ waiverFile.text[i].id = ""
        /\ \A gids \in GateIdSets :
              \A w \in {CountWaivers(waiverFile, gids)} :
                  /\ w >= 1
                  /\ \A l1 \in ShortL1[gids] :
                        l1 <= 1 /\ ExitCode(Remaining(l1, w)) = 0
        /\ (pc = "idle" /\ Len(runs) = 1) =>
              \A sf \in ShortScans, ch \in Footprints, gids \in GateIdSets :
                  \A v \in {ComputeGateResult(sf, ch, waiverFile, gids)} :
                      /\ v.waivers >= 1
                      /\ v.l1_in_pr \in ShortL1[gids]
                      /\ v.remaining_l1 = 0
                      /\ v.code = 0

\* C29 witness: the validators rejected the batch, the waiver file holds the
\* one block of that rejection, and a gate computation with one gated
\* finding in the footprint passes on it
C29_Witness ==
    /\ Len(runs) = 1 /\ runs[1].outcome = "verify-rejected"
    /\ Len(waiverFile.text) = 1
    /\ \E sf \in ShortScans, ch \in Footprints, gids \in GateIdSets :
          \E v \in {ComputeGateResult(sf, ch, waiverFile, gids)} :
              v.l1_in_pr = 1 /\ v.waivers = 1 /\ v.remaining_l1 = 0 /\ v.code = 0

\* C30: every result ingest_diffs returns has waived in {0, 1},
\* accepted >= 0 and accepted * waived = 0; accepted > 0 occurs on the merged
\* outcome only and waived = 1 on a rejected outcome only; and a directory
\* without diff documents returns accepted = 0, waived = 0 at once: no
\* temporary directory, no worktree, no validator run, no waiver, the main
\* tree untouched.
C30_ResultShape ==
    /\ \A k \in DOMAIN runs :
          runs[k].outcome # "raised" =>
              /\ runs[k].waived \in {0, 1}
              /\ runs[k].accepted >= 0
              /\ runs[k].accepted * runs[k].waived = 0
              /\ runs[k].accepted > 0 => runs[k].outcome = "merged"
              /\ runs[k].waived = 1 <=> runs[k].outcome \in Rejected
              /\ runs[k].outcome = "empty" <=> batch = <<>>
    /\ batch = <<>> =>
          /\ pc = "idle" /\ tmpDirs = {} /\ worktrees = {}
          /\ waiverFile = WaiverAbsent
          /\ \A k \in DOMAIN runs :
                /\ runs[k].outcome = "empty"
                /\ runs[k].accepted = 0 /\ runs[k].waived = 0
                /\ runs[k].at = "idle" /\ runs[k].was = "none"
                /\ ~runs[k].dirLeft /\ ~runs[k].regLeft
                /\ runs[k].mainBefore = main /\ runs[k].mainAfter = main
                /\ runs[k].waiverBefore = WaiverAbsent
                /\ runs[k].waiverAfter = WaiverAbsent

\* C30 witness: a directory of two documents whose first ingestion merged
\* both (accepted = 2, waived = 0) and whose second was rejected
\* (accepted = 0, waived = 1)
C30_Witness ==
    /\ Len(batch) = 2 /\ Len(runs) = 2
    /\ runs[1].outcome = "merged" /\ runs[1].accepted = 2 /\ runs[1].waived = 0
    /\ runs[2].outcome \in Rejected /\ runs[2].accepted = 0 /\ runs[2].waived = 1

====
